---- MODULE Spec2Model ----
(***************************************************************************)
(* A model of arborize's Schematic/Definition subsystem:                   *)
(*   src/arborize/schematic.py    Schematic, CableBranch, UnitBranch, Point *)
(*   src/arborize/definitions.py  CableType, Definition, default ions       *)
(*   src/arborize/_util.py        Copy / Merge / Assert mixins              *)
(*                                                                         *)
(* Python objects live in arenas: `cables` is Schematic.cables, `units` is *)
(* the heap of UnitBranch objects in allocation order, and a reference to  *)
(* a unit branch is its index in `units` (0 is None).  Python dicts are    *)
(* insertion ordered, so a dict is a sequence of [k, v] entries.  Scalars  *)
(* are opaque tokens (strings); merging never computes with them.          *)
(***************************************************************************)
EXTENDS Integers, Sequences, FiniteSets, TLC

VARIABLES
    frozen,      \* Schematic._frozen
    name,        \* Schematic._name
    named,       \* Schematic._named
    definition,  \* Schematic._definition
    cables,      \* Schematic.cables : list of CableBranch
    units,       \* every UnitBranch allocated so far
    roots,       \* Schematic.roots : list of UnitBranch references
    call,        \* the last call made on the schematic and its arguments
    err,         \* the exception kind the last call raised, NoError if it returned
    ret          \* what the last call returned, or the message parts of its error

vars == <<frozen, name, named, definition, cables, units, roots, call, err, ret>>

(***************************************************************************)
(* Bounds of the model.                                                    *)
(***************************************************************************)
MaxCables == 2
MaxPoints == 3
MaxLifePoints == 2
MaxOrderPoints == 1
MaxNames == 2

(***************************************************************************)
(* Python values.                                                          *)
(***************************************************************************)
None == "None"
\* A Constraint object whose upper bound is None (constraints.py).
EmptyConstraint == "Constraint(upper=None)"
NoError == "NoError"

\* _util.is_empty_constraint
is_empty_constraint(value) == value = EmptyConstraint

\* `x is not None and not is_empty_constraint(x)` (Merge.merge) and its
\* negation (Assert.assert_).
IsSet(value) == value # None /\ ~is_empty_constraint(value)

(***************************************************************************)
(* Insertion-ordered dicts.                                                *)
(***************************************************************************)
EmptyDict == <<>>
DictHas(d, key) == \E i \in 1..Len(d) : d[i].k = key
DictGet(d, key) == d[CHOOSE i \in 1..Len(d) : d[i].k = key].v
DictKeys(d) == [i \in 1..Len(d) |-> d[i].k]
\* d[key] = value : an existing key keeps its position.
DictSet(d, key, value) ==
    IF DictHas(d, key)
    THEN [i \in 1..Len(d) |-> IF d[i].k = key THEN [k |-> key, v |-> value] ELSE d[i]]
    ELSE Append(d, [k |-> key, v |-> value])

\* Body applied to the value of e, with e evaluated once.
Once(e, Body(_)) == CHOOSE y \in { Body(x) : x \in {e} } : TRUE

\* seq[i] with Python's indexing: 0-based, negative indices count from the end.
PyInRange(seq, i) == i \in (0 - Len(seq))..(Len(seq) - 1)
PyIndex(seq, i) == IF i >= 0 THEN seq[i + 1] ELSE seq[Len(seq) + i + 1]

(***************************************************************************)
(* Records of definitions.py.  A CableProperties is [Ra, cm], an Ion is    *)
(* [rev_pot, int_con, ext_con], a Mechanism is [parameters], a Synapse is  *)
(* [parameters, mech_id]; an unset field holds None.                       *)
(***************************************************************************)
CableFields == <<"Ra", "cm">>
IonFields == <<"rev_pot", "int_con", "ext_con">>

CableProperties(Ra, cm) == [Ra |-> Ra, cm |-> cm]
Ion(rev_pot, int_con, ext_con) ==
    [rev_pot |-> rev_pot, int_con |-> int_con, ext_con |-> ext_con]
Mechanism(parameters) == [parameters |-> parameters]

\* definitions.to_mech_id for a string id: the 1-tuple holding it.
to_mech_id(mech_id) == <<mech_id>>
\* definitions.is_mech_id on a tuple of strings.
is_mech_id(mech_id) == 0 < Len(mech_id) /\ Len(mech_id) < 4
Synapse(parameters, mech_id) ==
    [parameters |-> parameters, mech_id |-> to_mech_id(mech_id)]

\* Copy.copy: a fresh record with every field's value.
Copy(self) == [f \in DOMAIN self |-> self[f]]

\* Merge.merge: every field set in `other` overwrites self's.
MergeLeftBiased(self, other) ==
    [f \in DOMAIN self |-> IF IsSet(self[f]) THEN self[f] ELSE other[f]]
Merge(self, other) ==
    [f \in DOMAIN self |-> IF IsSet(other[f]) THEN other[f] ELSE self[f]]

\* Assert.assert_: raises ValueError(msg, field) for the first field, in
\* declaration order, that is None or an empty constraint.  `args` is
\* e.args[1:].
AssertNoCm(self, fields) ==
    IF ~IsSet(self[fields[1]])
    THEN [raised |-> TRUE, args |-> <<fields[1]>>]
    ELSE [raised |-> FALSE, args |-> <<>>]
Assert_(self, fields) ==
    IF \E i \in 1..Len(fields) : ~IsSet(self[fields[i]])
    THEN LET i == CHOOSE j \in 1..Len(fields) :
                      /\ ~IsSet(self[fields[j]])
                      /\ \A h \in 1..(j - 1) : IsSet(self[fields[h]])
         IN  [raised |-> TRUE, args |-> <<fields[i]>>]
    ELSE [raised |-> FALSE, args |-> <<>>]

\* Mechanism.merge (inherited by Synapse): every parameter of `other`,
\* whatever its value, is written into self.parameters.
RECURSIVE MergeParameters(_, _)
MergeParameters(selfp, otherp) ==
    IF otherp = <<>> THEN selfp
    ELSE Once(DictSet(selfp, Head(otherp).k, Head(otherp).v),
              LAMBDA written : MergeParameters(written, Tail(otherp)))
MechanismMerge(self, other) ==
    [self EXCEPT !.parameters = MergeParameters(self.parameters, other.parameters)]

(***************************************************************************)
(* CableType: [cable, ions, mechs, synapses, default_ions].  default_ions  *)
(* tells that `ions` is a default_ions_dict (CableType.default) and not a  *)
(* plain dict.                                                             *)
(***************************************************************************)
\* CableType.__init__
NewCableType ==
    [cable |-> CableProperties(None, None), ions |-> EmptyDict,
     mechs |-> EmptyDict, synapses |-> EmptyDict, default_ions |-> FALSE]

\* default_ions_dict._make_defaults
DefaultIons ==
    << [k |-> "na", v |-> Ion("50.0", "10.0", "140.0")],
       [k |-> "k",  v |-> Ion("-77.0", "54.4", "2.5")],
       [k |-> "ca", v |-> Ion("132.4579341637009", "5e-05", "2.0")],
       [k |-> "h",  v |-> Ion("0.0", "1.0", "1.0")] >>

\* CableType.default: the ions dict starts empty, defaults are merged in by
\* default_ions_dict.__setitem__ when a key is first set.
DefaultCableType ==
    [cable |-> CableProperties("35.4", "1"), ions |-> EmptyDict,
     mechs |-> EmptyDict, synapses |-> EmptyDict, default_ions |-> TRUE]

\* default_ions_dict.__setitem__(key, ion) for a key not yet in the dict:
\* KeyError when the key has no built-in default, else the criss-cross merge.
DefaultIonsSetItem(d, key, ion) ==
    IF ~DictHas(DefaultIons, key)
    THEN [err |-> "KeyError", val |-> d]
    ELSE LET value == Merge(Copy(DictGet(DefaultIons, key)), ion)
         IN  [err |-> NoError, val |-> DictSet(d, key, Merge(ion, value))]

\* CableType._mergedict(dself, dother).  kind is "ions", "mechs" or
\* "synapses" and selects the merge of the entry type; is_default says that
\* dself is a default_ions_dict.
MergeEntry(kind, a, b) ==
    IF kind = "ions" THEN Merge(a, b) ELSE MechanismMerge(a, b)

RECURSIVE _mergedict(_, _, _, _)
_mergedict(kind, is_default, dself, dother) ==
    IF dother = <<>> THEN [err |-> NoError, val |-> dself]
    ELSE LET key == Head(dother).k
             value == Head(dother).v
         IN  IF DictHas(dself, key)
             THEN Once(DictSet(dself, key, MergeEntry(kind, DictGet(dself, key), value)),
                       LAMBDA merged : _mergedict(kind, is_default, merged, Tail(dother)))
             ELSE IF is_default
             THEN Once(DefaultIonsSetItem(dself, key, Copy(value)),
                       LAMBDA r : IF r.err # NoError THEN r
                                  ELSE _mergedict(kind, is_default, r.val, Tail(dother)))
             ELSE Once(DictSet(dself, key, Copy(value)),
                       LAMBDA added : _mergedict(kind, is_default, added, Tail(dother)))

\* CableType.merge(def_right): cable, then ions, mechs, synapses; an
\* exception leaves the later parts unmerged.
CableTypeMerge(self, def_right) ==
    LET cable == Merge(self.cable, def_right.cable)
        mechs == _mergedict("mechs", FALSE, self.mechs, def_right.mechs)
        synapses == _mergedict("synapses", FALSE, self.synapses, def_right.synapses)
    IN  Once(_mergedict("ions", self.default_ions, self.ions, def_right.ions),
             LAMBDA ions :
                IF ions.err # NoError
                THEN [err |-> ions.err, val |-> [self EXCEPT !.cable = cable]]
                ELSE [err |-> NoError,
                      val |-> [self EXCEPT !.cable = cable, !.ions = ions.val,
                                           !.mechs = mechs.val,
                                           !.synapses = synapses.val]])

\* CableType.add_synapse(label, synapse) on a synapses dict.
add_synapse(synapses, label, synapse) ==
    IF ~is_mech_id(IF synapse.mech_id # <<>> THEN synapse.mech_id ELSE to_mech_id(label))
    THEN [err |-> "ValueError", val |-> synapses]
    ELSE IF DictHas(synapses, label) THEN [err |-> "KeyError", val |-> synapses]
    ELSE [err |-> NoError, val |-> DictSet(synapses, label, synapse)]

\* CableType.assert_: the cable, then every ion in dict order.
RECURSIVE AssertIons(_)
AssertIons(ions) ==
    IF ions = <<>> THEN [raised |-> FALSE, args |-> <<>>]
    ELSE LET a == Assert_(Head(ions).v, IonFields)
         IN  IF a.raised THEN [raised |-> TRUE, args |-> <<Head(ions).k>> \o a.args]
             ELSE AssertIons(Tail(ions))
CableTypeAssert(self) ==
    LET c == Assert_(self.cable, CableFields)
    IN  IF c.raised THEN c ELSE AssertIons(self.ions)

\* CableType.anchor(defs, synapses, use_defaults): defs is the list of the
\* labels' cable types in priority order, <<>> standing for a None entry
\* and <<ct>> for a cable type.
RECURSIVE AddSynapses(_, _)
AddSynapses(acc, synapses) ==
    IF synapses = <<>> THEN [err |-> NoError, val |-> acc]
    ELSE Once(add_synapse(acc, Head(synapses).k, Head(synapses).v),
              LAMBDA r : IF r.err # NoError THEN r ELSE AddSynapses(r.val, Tail(synapses)))

RECURSIVE MergeAll(_, _)
MergeAll(def_, defs) ==
    IF defs = <<>> THEN [err |-> NoError, val |-> def_]
    ELSE IF Head(defs) = <<>> THEN MergeAll(def_, Tail(defs))
    ELSE Once(CableTypeMerge(def_, Head(defs)[1]),
              LAMBDA r : IF r.err # NoError THEN r ELSE MergeAll(r.val, Tail(defs)))

anchor(defs, synapses, use_defaults) ==
    LET def_ == IF use_defaults THEN DefaultCableType ELSE NewCableType
    IN  Once(AddSynapses(EmptyDict, synapses),
             LAMBDA globaldef :
                IF globaldef.err # NoError THEN [err |-> globaldef.err, val |-> def_]
                ELSE Once(_mergedict("synapses", FALSE, globaldef.val, def_.synapses),
                          LAMBDA merged :
                             MergeAll([def_ EXCEPT !.synapses = merged.val], defs)))


(***************************************************************************)
(* Definition: [cable_types, synapse_types, use_defaults], the two dicts   *)
(* in registration order.                                                  *)
(***************************************************************************)
\* Definition.__init__ / ModelDefinition()
NewDefinition ==
    [cable_types |-> EmptyDict, synapse_types |-> EmptyDict, use_defaults |-> FALSE]

\* Definition.get_synapse_types: a dict of copies.
get_synapse_types(def) ==
    [i \in 1..Len(def.synapse_types) |->
        [k |-> def.synapse_types[i].k, v |-> Copy(def.synapse_types[i].v)]]

\* Definition.add_cable_type(label, def_)
add_cable_type(def, label, def_) ==
    IF DictHas(def.cable_types, label)
    THEN [err |-> "KeyError", val |-> def]
    ELSE [err |-> NoError,
          val |-> [def EXCEPT !.cable_types = DictSet(@, label, def_)]]

\* dict.get(label): <<>> is None.
CableTypeOfFirst(def, label) ==
    IF def.cable_types = <<>> THEN <<>> ELSE <<def.cable_types[1].v>>
CableTypeOf(def, label) ==
    IF DictHas(def.cable_types, label) THEN <<DictGet(def.cable_types, label)>> ELSE <<>>

(***************************************************************************)
(* Label priority (Schematic._make_label_sorter).  Python compares strings *)
(* by code point; Alphabet lists the labels of the model in that order.    *)
(***************************************************************************)
Alphabet ==
    <<"_b", "a", "a_", "a_b", "apical_dendrite", "b", "basal_dendrite", "c", "soma",
      "u", "x", "y">>
StrIndex(str) == CHOOSE i \in 1..Len(Alphabet) : Alphabet[i] = str
StrLess(s1, s2) == StrIndex(s1) < StrIndex(s2)

\* label_order(lbl): (position in the cable type dict, lbl), -1 when absent.
label_order(def, lbl) ==
    IF DictHas(def.cable_types, lbl)
    THEN <<(CHOOSE i \in 1..Len(def.cable_types) : def.cable_types[i].k = lbl) - 1, lbl>>
    ELSE <<-1, lbl>>

\* Python's tuple comparison on (int, str).
KeyLess(k1, k2) == k1[1] < k2[1] \/ (k1[1] = k2[1] /\ StrLess(k1[2], k2[2]))

\* sorted(labels, key=label_order): a stable sort.
RECURSIVE InsertSorted(_, _, _)
InsertSorted(def, sorted, lbl) ==
    IF sorted = <<>> THEN <<lbl>>
    ELSE IF KeyLess(label_order(def, lbl), label_order(def, Head(sorted)))
    THEN <<lbl>> \o sorted
    ELSE <<Head(sorted)>> \o InsertSorted(def, Tail(sorted), lbl)
RECURSIVE SortFrom(_, _, _)
SortFrom(def, sorted, labels) ==
    IF labels = <<>> THEN sorted
    ELSE Once(InsertSorted(def, sorted, Head(labels)),
              LAMBDA inserted : SortFrom(def, inserted, Tail(labels)))
SortUnsorted(def, labels) == labels
sort_labels(def, labels) == SortFrom(def, <<>>, labels)

\* Schematic._makedef(labels)
_makedef(def, labels) ==
    Once(sort_labels(def, labels),
         LAMBDA sorted :
            Once([i \in 1..Len(sorted) |-> CableTypeOf(def, sorted[i])],
                 LAMBDA defs : anchor(defs, get_synapse_types(def), def.use_defaults)))

(***************************************************************************)
(* Branches and points (schematic.py, Point / Branch / CableBranch /       *)
(* UnitBranch).  References to cables and units are arena indices, 0 is    *)
(* None.  A unit's `definition` is <<>> until freeze assigns <<ct>>.       *)
(***************************************************************************)
PointLocSwapped(loc, branch, coords, radius) ==
    [loc |-> <<loc[2], loc[1]>>, coords |-> coords, radius |-> radius, branch |-> branch]
Point(loc, branch, coords, radius) ==
    [loc |-> loc, coords |-> coords, radius |-> radius, branch |-> branch]
NewCableBranch == [points |-> <<>>, parent |-> 0, children |-> <<>>]
NewUnitBranch ==
    [points |-> <<>>, parent |-> 0, children |-> <<>>, labels |-> <<>>,
     definition |-> <<>>]

\* Python's list equality, and the set equality the label lists stand for.
SameList(l1, l2) == l1 = l2
SameSet(l1, l2) == {l1[i] : i \in 1..Len(l1)} = {l2[i] : i \in 1..Len(l2)}

\* CableBranch.append(loc, coords, radius, labels) on cable c (a reference):
\* the cables and units afterwards, and the new point's unit.
CableBranchAppend(cs, us, c, loc, coords, radius, labels) ==
    LET pts == cs[c].points
        prev == pts[Len(pts)]
        grow == Len(pts) > 0 /\ SameList(us[prev.branch].labels, labels)
        branch == IF grow THEN prev.branch ELSE Len(us) + 1
        us1 == IF grow THEN us
               ELSE IF Len(pts) > 0
               THEN Append([us EXCEPT ![prev.branch].children = Append(@, branch)],
                           [NewUnitBranch EXCEPT !.parent = prev.branch])
               ELSE Append(us, NewUnitBranch)
        point == Point(loc, branch, coords, radius)
        us2 == [us1 EXCEPT ![branch].labels = labels,
                           ![branch].points = Append(@, point)]
        cs1 == [cs EXCEPT ![c].points = Append(@, point)]
    IN  [cables |-> cs1, units |-> us2, branch |-> branch]

\* _util.get_location_name
get_location_name_interval(pts) ==
    <<"interval", pts[1].loc[1], pts[1].loc[2], pts[Len(pts)].loc[2]>>
get_location_name(pts) ==
    IF Len(pts) = 1
    THEN <<"location", pts[1].loc[1], pts[1].loc[2]>>
    ELSE <<"interval", pts[1].loc[1], pts[1].loc[2], pts[Len(pts)].loc[2]>>

\* Schematic._flatten_branches(branches).  depth is the number of frames the
\* recursion may still open: a path of more units than exist runs through a
\* cycle, on which the recursion never returns (RecursionError).
RECURSIVE _flatten_branches(_, _, _, _)
_flatten_branches(def, us, branches, depth) ==
    IF branches = <<>> THEN [err |-> NoError, msg |-> <<>>, units |-> us]
    ELSE IF depth = 0 THEN [err |-> "RecursionError", msg |-> <<>>, units |-> us]
    ELSE LET b == Head(branches)
             locstr == get_location_name(us[b].points)
         IN  Once(_makedef(def, us[b].labels), LAMBDA made :
             Once([us EXCEPT ![b].definition = <<made.val>>], LAMBDA us1 :
             Once(CableTypeAssert(made.val), LAMBDA a :
                 IF made.err # NoError
                 THEN [err |-> made.err, msg |-> <<>>, units |-> us]
                 ELSE IF a.raised /\ us[b].labels = <<>>
                 THEN [err |-> "ValueError", units |-> us1,
                       msg |-> <<"Unlabeled", locstr, a.args[1]>>]
                 ELSE IF a.raised
                 THEN [err |-> "ModelDefinitionError", units |-> us1,
                       msg |-> <<locstr, us[b].labels, a.args>>]
                 ELSE Once(_flatten_branches(def, us1, us[b].children, depth - 1),
                           LAMBDA below :
                              IF below.err # NoError THEN below
                              ELSE _flatten_branches(def, below.units, Tail(branches),
                                                     depth)))))

\* Schematic.__iter__: the units in the order the stack yields them.
Reversed(seq) == [i \in 1..Len(seq) |-> seq[Len(seq) + 1 - i]]
RECURSIVE IterStack(_, _)
IterStack(us, stack) ==
    IF stack = <<>> THEN <<>>
    ELSE LET branch == stack[Len(stack)]
         IN  <<branch>> \o IterStack(us, SubSeq(stack, 1, Len(stack) - 1)
                                          \o Reversed(us[branch].children))
Iter(us, rs) == IterStack(us, rs)

(***************************************************************************)
(* The inputs the calls are made with.                                     *)
(***************************************************************************)
Dict1(k1, v1) == <<[k |-> k1, v |-> v1]>>
Dict2(k1, v1, k2, v2) == <<[k |-> k1, v |-> v1], [k |-> k2, v |-> v2]>>

\* Cable types in the style of tests/data/models.py.
CtFull ==
    [NewCableType EXCEPT
        !.cable = CableProperties("10", "1"),
        !.ions = Dict1("ca", Ion("10", "10", "10")),
        !.mechs = Dict1("pas", Mechanism(Dict2("e", "-70", "g", "0.01"))),
        !.synapses = Dict1("ExpSyn", Synapse(Dict1("tau", "2"), "ExpSyn"))]
CtPartial ==
    [NewCableType EXCEPT
        !.cable = CableProperties("20", None),
        !.ions = Dict1("ca", Ion("5", None, None)),
        !.mechs = Dict1("pas", Mechanism(Dict1("g", "0.02")))]
CtNaUnset ==
    [NewCableType EXCEPT !.ions = Dict1("na", Ion(None, None, None))]
CtChloride ==
    [NewCableType EXCEPT !.ions = Dict1("cl", Ion("-65", "4", "110"))]

Def(cable_types, synapse_types, use_defaults) ==
    [cable_types |-> cable_types, synapse_types |-> synapse_types,
     use_defaults |-> use_defaults]

ExpSyn2 == Dict1("expsyn2", Synapse(Dict1("tau", "3"), "ExpSyn"))

\* The definitions assigned to Schematic.definition.
DefinitionPool ==
    { Def(Dict2("x", CtFull, "y", CtPartial), EmptyDict, FALSE),
      Def(Dict2("y", CtPartial, "x", CtFull), ExpSyn2, FALSE),
      Def(Dict2("x", CtNaUnset, "y", CtChloride), ExpSyn2, TRUE),
      Def(Dict1("x", CtPartial), EmptyDict, FALSE) }

Names == { None, "cell" }
RandomNames == { "QWERTYUIOP", "ASDFGHJKLZ" }
CoordsPool == { <<0, 0, 0>> }
RadiusPool == { 1 }
NoEndpoint == <<>>

TotalPoints(cs) ==
    LET RECURSIVE Sum(_)
        Sum(i) == IF i = 0 THEN 0 ELSE Len(cs[i].points) + Sum(i - 1)
    IN  Sum(Len(cs))

(***************************************************************************)
(* What a create_location call asks for, relative to the schematic it is   *)
(* made on: recorded in `call` beside the operation's name.                *)
(***************************************************************************)
\* The next point of the last cable, or point 0 of the next new cable.
IsNextLocation(cs, location) ==
    \/ location = <<Len(cs), 0>>
    \/ Len(cs) > 0 /\ location = <<Len(cs) - 1, Len(cs[Len(cs)].points)>>

\* The endpoint names a point created by an earlier call.
IsCreatedPoint(cs, endpoint) ==
    /\ endpoint # NoEndpoint
    /\ endpoint[1] \in 0..(Len(cs) - 1)
    /\ endpoint[2] \in 0..(Len(cs[endpoint[1] + 1].points) - 1)

EndpointKind(cs, endpoint) ==
    IF endpoint = NoEndpoint THEN "none"
    ELSE IF IsCreatedPoint(cs, endpoint) THEN "created"
    ELSE "not created"

(***************************************************************************)
(* The state after Schematic.__init__(name).                               *)
(***************************************************************************)
Init ==
    /\ frozen = FALSE
    /\ name \in Names
    /\ named = 0
    /\ definition = NewDefinition
    /\ cables = <<>>
    /\ units = <<>>
    /\ roots = <<>>
    /\ call = [op |-> "__init__"]
    /\ err = NoError
    /\ ret = <<>>

Raise(kind) == err' = kind /\ ret' = <<>>
Return(value) == err' = NoError /\ ret' = value

(***************************************************************************)
(* Schematic.create_location(location, coords, radii, labels, endpoint)    *)
(***************************************************************************)
\* Lines 161-167: the cable and the point's unit are given their parents, and
\* each parent its child.
SetParentCableOnly(cs, us, branch, unit, cable_parent, unit_parent) ==
    [cables |-> [[cs EXCEPT ![branch].parent = cable_parent]
                     EXCEPT ![cable_parent].children = Append(@, branch)],
     units |-> us]
SetParent(cs, us, branch, unit, cable_parent, unit_parent) ==
    [cables |-> [[cs EXCEPT ![branch].parent = cable_parent]
                     EXCEPT ![cable_parent].children = Append(@, branch)],
     units |-> [[us EXCEPT ![unit].parent = unit_parent]
                    EXCEPT ![unit_parent].children = Append(@, unit)]]

\* What the call does to (cables, units, roots) and how it ends.
CreateLocationResult(cs, us, rs, location, coords, radius, labels, endpoint) ==
    LET bid == location[1]
        pid == location[2]
        next_bid == Len(cs)
        unchanged == [cables |-> cs, units |-> us, roots |-> rs]
    IN  IF bid # next_bid /\ next_bid = 0
        THEN \* self.cables[-1] of an empty list, in either branch
             [err |-> "IndexError"] @@ unchanged
        ELSE IF bid # next_bid /\ bid # next_bid - 1
        THEN [err |-> "ConstructionError"] @@ unchanged
        ELSE
        LET cs1 == IF bid = next_bid THEN Append(cs, NewCableBranch) ELSE cs
            branch == bid + 1
        IN  IF pid # Len(cs1[branch].points)
            THEN [err |-> "ConstructionError", cables |-> cs1, units |-> us, roots |-> rs]
            ELSE
            LET app == CableBranchAppend(cs1, us, branch, location, coords, radius, labels)
                cs2 == app.cables
                us2 == app.units
            IN  IF endpoint # NoEndpoint
                THEN IF ~PyInRange(cs2, endpoint[1])
                     THEN [err |-> "IndexError", cables |-> cs2, units |-> us2, roots |-> rs]
                     ELSE
                     LET cable_parent ==
                             IF endpoint[1] >= 0 THEN endpoint[1] + 1
                             ELSE Len(cs2) + endpoint[1] + 1
                     IN  IF ~PyInRange(cs2[cable_parent].points, endpoint[2])
                         THEN [err |-> "IndexError", cables |-> cs2, units |-> us2,
                               roots |-> rs]
                         ELSE
                         LET unit_parent == PyIndex(cs2[cable_parent].points, endpoint[2]).branch
                             linked == SetParent(cs2, us2, branch, app.branch,
                                                 cable_parent, unit_parent)
                         IN  [err |-> NoError, cables |-> linked.cables,
                              units |-> linked.units, roots |-> rs]
                ELSE IF pid = 0
                THEN [err |-> NoError, cables |-> cs2, units |-> us2,
                      roots |-> Append(rs, app.branch)]
                ELSE [err |-> NoError, cables |-> cs2, units |-> us2, roots |-> rs]

CreateLocation(location, coords, radius, labels, endpoint) ==
    /\ call' = [op |-> "create_location",
                next_location |-> IsNextLocation(cables, location),
                endpoint |-> EndpointKind(cables, endpoint),
                endpoint_arg |-> endpoint]
    /\ IF frozen
       THEN /\ Raise("FrozenError")
            /\ UNCHANGED <<cables, units, roots>>
       ELSE LET r == CreateLocationResult(cables, units, roots, location, coords,
                                          radius, labels, endpoint)
            IN  /\ cables' = r.cables
                /\ units' = r.units
                /\ roots' = r.roots
                /\ IF r.err = NoError THEN Return(<<>>) ELSE Raise(r.err)
    /\ UNCHANGED <<frozen, name, named, definition>>

\* Schematic.create_empty()
CreateEmpty ==
    /\ call' = [op |-> "create_empty"]
    /\ IF frozen
       THEN Raise("FrozenError") /\ UNCHANGED cables
       ELSE cables' = Append(cables, NewCableBranch) /\ Return(<<>>)
    /\ UNCHANGED <<frozen, name, named, definition, units, roots>>

\* Schematic.name setter
SetNameUnchecked(value) ==
    /\ call' = [op |-> "name"]
    /\ name' = value
    /\ Return(<<>>)
    /\ UNCHANGED <<frozen, named, definition, cables, units, roots>>
SetName(value) ==
    /\ call' = [op |-> "name"]
    /\ IF frozen
       THEN Raise("FrozenError") /\ UNCHANGED name
       ELSE name' = value /\ Return(<<>>)
    /\ UNCHANGED <<frozen, named, definition, cables, units, roots>>

\* Schematic.definition setter
SetDefinition(value) ==
    /\ call' = [op |-> "definition"]
    /\ IF frozen
       THEN Raise("FrozenError") /\ UNCHANGED definition
       ELSE definition' = value /\ Return(<<>>)
    /\ UNCHANGED <<frozen, name, named, cables, units, roots>>

\* Schematic.create_name(): <<name, n>> is the string f"{name}_{n}".
CreateNameFromZero ==
    /\ call' = [op |-> "create_name"]
    /\ IF ~frozen
       THEN Raise("FrozenError") /\ UNCHANGED named
       ELSE /\ named < MaxNames
            /\ named' = named + 1
            /\ Return(<<name, named>>)
    /\ UNCHANGED <<frozen, name, definition, cables, units, roots>>
CreateName ==
    /\ call' = [op |-> "create_name"]
    /\ IF ~frozen
       THEN Raise("FrozenError") /\ UNCHANGED named
       ELSE /\ named < MaxNames
            /\ named' = named + 1
            /\ Return(<<name, named + 1>>)
    /\ UNCHANGED <<frozen, name, definition, cables, units, roots>>

\* Schematic.freeze() on a frozen schematic: the body of `if not
\* self._frozen` is skipped.
FreezeFrozenRenames ==
    /\ Return(<<>>)
    /\ name' \in RandomNames
    /\ UNCHANGED <<frozen, units>>
FreezeFrozen == Return(<<>>) /\ UNCHANGED <<frozen, name, units>>

\* freeze() setting the frozen flag before the branches are flattened.
FreezeMarksFrozen ==
    /\ call' = [op |-> "freeze"]
    /\ \E r \in { _flatten_branches(definition, units, roots, Len(units)) } :
          /\ units' = r.units
          /\ err' = r.err
          /\ ret' = r.msg
    /\ frozen' = TRUE
    /\ \E random \in RandomNames : name' = IF name # None THEN name ELSE random
    /\ UNCHANGED <<named, definition, cables, roots>>

\* Schematic.freeze().  Neither definition class has convert_to_constraints,
\* so the hasattr branch is never taken.
Freeze ==
    /\ call' = [op |-> "freeze"]
    /\ IF frozen
       THEN FreezeFrozen
       ELSE \E r \in { _flatten_branches(definition, units, roots, Len(units)) } :
                /\ units' = r.units
                /\ IF r.err # NoError
                   THEN /\ err' = r.err
                        /\ ret' = r.msg
                        /\ UNCHANGED <<frozen, name>>
                   ELSE /\ \E random \in RandomNames :
                               name' = IF name # None THEN name ELSE random
                        /\ frozen' = TRUE
                        /\ Return(<<>>)
    /\ UNCHANGED <<named, definition, cables, roots>>

\* definition.add_cable_type(label, def_), called on the Definition object
\* the schematic holds (the setter stores the caller's object, not a copy).
AddCableType(label, def_) ==
    LET r == add_cable_type(definition, label, def_)
    IN  /\ call' = [op |-> "add_cable_type"]
        /\ definition' = r.val
        /\ IF r.err = NoError THEN Return(<<>>) ELSE Raise(r.err)
        /\ UNCHANGED <<frozen, name, named, cables, units, roots>>

\* The schematic stays within the model's size.
Within(max_cables, max_points) ==
    Len(cables') <= max_cables /\ TotalPoints(cables') <= max_points

(***************************************************************************)
(* Spec: the life cycle of a schematic (construction in ascending order,   *)
(* name and definition assignment, freeze, naming of instances).           *)
(***************************************************************************)
LabelLists == { <<>>, <<"x">>, <<"y", "x">> }
Endpoints == { NoEndpoint, <<0, 0>> }
NextLocations(cs) ==
    { <<Len(cs), 0>> } \cup
    (IF Len(cs) > 0 THEN { <<Len(cs) - 1, Len(cs[Len(cs)].points)>> } ELSE {})

Next ==
    \/ \E location \in NextLocations(cables) \cup {<<0, 1>>},
          coords \in CoordsPool, radius \in RadiusPool,
          labels \in LabelLists, endpoint \in Endpoints :
            /\ CreateLocation(location, coords, radius, labels, endpoint)
            /\ Within(MaxCables, MaxLifePoints)
    \/ CreateEmpty /\ Within(MaxCables, MaxLifePoints)
    \/ \E value \in Names : SetName(value)
    \/ \E value \in DefinitionPool : SetDefinition(value)
    \/ CreateName
    \/ Freeze

Spec == Init /\ [][Next]_vars

(***************************************************************************)
(* SpecBuild: construction alone, with arbitrary locations and endpoints.  *)
(***************************************************************************)
BuildLabelLists == { <<"x">>, <<"x", "y">>, <<"y", "x">> }
BuildLocations == (0..(MaxCables - 1)) \X (0..(MaxPoints - 1))
BuildEndpoints == { NoEndpoint, <<0, 0>>, <<0, 1>>, <<1, 0>>, <<-1, -1>> }

InitBuild == Init /\ name = None

NextBuild ==
    \/ \E location \in BuildLocations, coords \in CoordsPool, radius \in RadiusPool,
          labels \in BuildLabelLists, endpoint \in BuildEndpoints :
            /\ CreateLocation(location, coords, radius, labels, endpoint)
            /\ Within(MaxCables, MaxPoints)
    \/ CreateEmpty /\ Within(MaxCables, MaxPoints)

SpecBuild == InitBuild /\ [][NextBuild]_vars

(***************************************************************************)
(* SpecOrder: label priority.  One cable whose points carry any list of    *)
(* the labels a, b, c, frozen under definitions that register the labels   *)
(* in any order; every value a label's cable type sets is the label's own  *)
(* name, so a resolved value tells which label it came from.               *)
(***************************************************************************)
OrderLabels == { "a", "b", "c" }

\* A cable type of label l that sets every field, or only some.
CtAll(l) ==
    [NewCableType EXCEPT
        !.cable = CableProperties(l, l),
        !.ions = Dict1("ca", Ion(l, l, l)),
        !.mechs = Dict1("pas", Mechanism(Dict2("e", l, "g", l))),
        !.synapses = Dict1("syn", Synapse(Dict1("tau", l), "ExpSyn"))]
CtSome(l) ==
    [NewCableType EXCEPT
        !.cable = CableProperties(l, None),
        !.ions = Dict1("ca", Ion(l, None, None)),
        !.mechs = Dict1("pas", Mechanism(Dict1("g", l)))]

\* Every list of distinct labels.
DistinctSeqs(n) ==
    { s \in [1..n -> OrderLabels] : \A i, j \in 1..n : i # j => s[i] # s[j] }
OrderLabelLists == DistinctSeqs(1) \cup DistinctSeqs(2) \cup DistinctSeqs(3)

GlobalSyn == Dict1("syn", Synapse(Dict2("tau", "global", "gmax", "global"), "ExpSyn"))
OrderDefinitions == { Def(EmptyDict, GlobalSyn, dflt) : dflt \in BOOLEAN }

\* The definition is completed before the schematic is frozen.
NextOrder ==
    \/ \E location \in NextLocations(cables),
          coords \in CoordsPool, radius \in RadiusPool, labels \in OrderLabelLists :
            /\ CreateLocation(location, coords, radius, labels, NoEndpoint)
            /\ Within(1, MaxOrderPoints)
    \/ \E value \in OrderDefinitions : SetDefinition(value)
    \/ \E label \in OrderLabels :
         \E def_ \in {CtAll(label), CtSome(label)} :
            ~frozen /\ AddCableType(label, def_)
    \/ Freeze

SpecOrder == InitBuild /\ [][NextOrder]_vars

(***************************************************************************)
(* Properties.                                                             *)
(***************************************************************************)
\* The unit branches iterating the schematic yields.
Yielded == Iter(units, roots)

\* Every field of the cable and of every ion is set.
FullyResolved(ct) ==
    /\ IsSet(ct.cable.Ra)
    /\ IsSet(ct.cable.cm)
    /\ \A i \in 1..Len(ct.ions) :
          /\ IsSet(ct.ions[i].v.rev_pot)
          /\ IsSet(ct.ions[i].v.int_con)
          /\ IsSet(ct.ions[i].v.ext_con)

\* C1: once freeze() has returned without error, every unit branch that
\* iterating the schematic yields has a resolved definition whose cable Ra
\* and cm are set and whose ions all have rev_pot, int_con and ext_con set.
C1_FrozenUnitsResolved ==
    frozen =>
        \A i \in 1..Len(Yielded) :
            /\ units[Yielded[i]].definition # <<>>
            /\ FullyResolved(units[Yielded[i]].definition[1])

\* A frozen schematic of two yielded unit branches, one of which resolved
\* an ion.
C1_Witness ==
    /\ frozen
    /\ Len(Yielded) >= 2
    /\ \E i \in 1..Len(Yielded) : units[Yielded[i]].definition[1].ions # <<>>

(***************************************************************************)
(* Label priority.                                                         *)
(***************************************************************************)
\* The fields a cable type can set: a cable property, an ion property, a
\* mechanism parameter or a synapse parameter.
FieldPaths ==
    { <<"cable", "Ra">>, <<"cable", "cm">>,
      <<"ions", "ca", "rev_pot">>, <<"ions", "ca", "int_con">>,
      <<"ions", "ca", "ext_con">>,
      <<"mechs", "pas", "e">>, <<"mechs", "pas", "g">>,
      <<"synapses", "syn", "tau">> }

\* The value cable type ct holds for field F, None when it holds none.
Lookup(ct, F) ==
    IF F[1] = "cable" THEN ct.cable[F[2]]
    ELSE IF ~DictHas(ct[F[1]], F[2]) THEN None
    ELSE LET entry == DictGet(ct[F[1]], F[2])
         IN  IF F[1] = "ions" THEN entry[F[3]]
             ELSE IF DictHas(entry.parameters, F[3])
             THEN DictGet(entry.parameters, F[3])
             ELSE None
SetsField(ct, F) == IsSet(Lookup(ct, F))

\* Position of a registered label in the definition's cable type dict.
Registered(def, lbl) == DictHas(def.cable_types, lbl)
RegisteredAt(def, lbl) == CHOOSE i \in 1..Len(def.cable_types) : def.cable_types[i].k = lbl
Carries(unit, lbl) == \E i \in 1..Len(unit.labels) : unit.labels[i] = lbl
PlaceIn(unit, lbl) == CHOOSE i \in 1..Len(unit.labels) : unit.labels[i] = lbl

\* Labels L1, L2 are registered in this order, unit u carries both and both
\* cable types set field F.
BothSet(u, L1, L2, F) ==
    /\ Carries(units[u], L1) /\ Carries(units[u], L2)
    /\ Registered(definition, L1) /\ Registered(definition, L2)
    /\ RegisteredAt(definition, L1) < RegisteredAt(definition, L2)
    /\ SetsField(DictGet(definition.cable_types, L1), F)
    /\ SetsField(DictGet(definition.cable_types, L2), F)

\* No label the unit carries that is registered after L2 sets field F.
LastToSet(u, L2, F) ==
    \A L3 \in OrderLabels :
        (/\ Carries(units[u], L3)
         /\ Registered(definition, L3)
         /\ RegisteredAt(definition, L3) > RegisteredAt(definition, L2))
        => ~SetsField(DictGet(definition.cable_types, L3), F)

\* C2 as stated: for any two labels L1 registered before L2, if a unit
\* branch carries both and both cable types set field F, the resolved value
\* of F after freeze is L2's value.
C2_Original ==
    frozen =>
        \A i \in 1..Len(Yielded) : \A L1, L2 \in OrderLabels : \A F \in FieldPaths :
            BothSet(Yielded[i], L1, L2, F)
            => Lookup(units[Yielded[i]].definition[1], F)
                 = Lookup(DictGet(definition.cable_types, L2), F)

\* C2: for any two labels L1 registered before L2, if a unit branch carries
\* both, both cable types set field F and no label of the branch registered
\* after L2 sets F, then the resolved value of F after freeze is L2's value,
\* whatever the order of the labels in the branch's own label list.
C2_LastRegisteredWins ==
    frozen =>
        \A i \in 1..Len(Yielded) : \A L1, L2 \in OrderLabels : \A F \in FieldPaths :
            (BothSet(Yielded[i], L1, L2, F) /\ LastToSet(Yielded[i], L2, F))
            => Lookup(units[Yielded[i]].definition[1], F)
                 = Lookup(DictGet(definition.cable_types, L2), F)

\* A frozen unit branch that lists L2 before L1 although L1 is registered
\* first, carries a third registered label, and resolved cm, an ion field, a
\* mechanism parameter and a synapse parameter that both L1 and L2 set.
C2_Witness ==
    /\ frozen
    /\ \E i \in 1..Len(Yielded) : \E L1, L2 \in OrderLabels :
          /\ Len(units[Yielded[i]].labels) = 3
          /\ Len(definition.cable_types) = 3
          /\ \A F \in { <<"cable", "cm">>, <<"ions", "ca", "ext_con">>,
                        <<"mechs", "pas", "e">>, <<"synapses", "syn", "tau">> } :
                BothSet(Yielded[i], L1, L2, F) /\ LastToSet(Yielded[i], L2, F)
          /\ PlaceIn(units[Yielded[i]], L2) < PlaceIn(units[Yielded[i]], L1)

(***************************************************************************)
(* Construction.                                                           *)
(***************************************************************************)
\* The unit branch holding point p of cable c (both 1-based).
UnitOf(c, p) == cables[c].points[p].branch

\* C3 as stated: the unit branches of each cable partition its points into
\* maximal runs of consecutive points with the same label set, label sets
\* compared as sets: two consecutive points lie in different unit branches
\* only when their label sets differ.
C3_MaximalRunsOfLabelSets ==
    \A c \in 1..Len(cables) : \A p \in 1..(Len(cables[c].points) - 1) :
        UnitOf(c, p) # UnitOf(c, p + 1)
        => ~SameSet(units[UnitOf(c, p)].labels, units[UnitOf(c, p + 1)].labels)

\* Every point is stored under its own location.
LocationsMatch ==
    \A c \in 1..Len(cables) : \A p \in 1..Len(cables[c].points) :
        cables[c].points[p].loc = <<c - 1, p - 1>>

\* C4: on an unfrozen schematic a create_location call for the next point of
\* the last cable or point 0 of the next new cable (with no endpoint or the
\* endpoint of a created point), and a create_empty call, never raise, and
\* every created point satisfies cables[b].points[p].loc = (b, p).
C4_ContiguousNeverRaises ==
    /\ (/\ ~frozen
        /\ call.op = "create_location"
        /\ call.next_location
        /\ call.endpoint \in {"none", "created"}) => err = NoError
    /\ (~frozen /\ call.op = "create_empty") => err = NoError
    /\ LocationsMatch

\* A contiguous create_location call has returned on a schematic that holds
\* an empty cable followed by a cable of two points.
C4_Witness ==
    /\ call.op = "create_location" /\ call.next_location /\ err = NoError
    /\ Len(cables) = 2
    /\ cables[1].points = <<>>
    /\ Len(cables[2].points) = 2

\* C5 as stated: on an unfrozen schematic, create_location with a location
\* that is neither the next point of the last cable nor point 0 of the next
\* new cable raises ConstructionError and no other kind of error.
C5_NonContiguousRaisesConstructionError ==
    (~frozen /\ call.op = "create_location" /\ ~call.next_location)
    => err = "ConstructionError"

\* C10 as stated: create_location (for a contiguous location) with an
\* endpoint that does not name a previously created point raises
\* ConstructionError.
C10_UnknownEndpointRaisesConstructionError ==
    (/\ ~frozen
     /\ call.op = "create_location"
     /\ call.next_location
     /\ call.endpoint = "not created") => err = "ConstructionError"

\* The parent and children of unit i are what they were.
SameLinks(i) ==
    /\ units'[i].parent = units[i].parent
    /\ units'[i].children = units[i].children

\* A create_location call has just returned after adding point 0 to the
\* last cable.
AddedPointZero ==
    /\ call'.op = "create_location"
    /\ err' = NoError
    /\ ~frozen
    /\ TotalPoints(cables') = TotalPoints(cables) + 1
    /\ Len(cables'[Len(cables')].points) = 1

\* C9: create_location for point 0 of a new cable with the endpoint (b, p) of
\* a previously created point sets the new cable's parent to cables[b] and
\* the parent of the new point's unit branch to the unit branch of point
\* (b, p), appending each child to its parent's children; with no endpoint,
\* point 0 of a cable appends its unit branch to roots; no other unit
\* branch's parent or children change.
C9_EndpointLinksParents ==
    [][AddedPointZero =>
        LET new == Len(cables')
            unit == Len(units')
        IN  /\ cables'[new].points[1].branch = unit
            /\ unit = Len(units) + 1
            /\ (call'.endpoint = "created" /\ Len(cables') = Len(cables) + 1) =>
                  LET b == call'.endpoint_arg[1] + 1
                      p == call'.endpoint_arg[2] + 1
                      unit_parent == cables[b].points[p].branch
                  IN  /\ cables'[new].parent = b
                      /\ cables'[b].children = Append(cables[b].children, new)
                      /\ units'[unit].parent = unit_parent
                      /\ units'[unit].children = <<>>
                      /\ units'[unit_parent].children
                            = Append(units[unit_parent].children, unit)
                      /\ units'[unit_parent].parent = units[unit_parent].parent
                      /\ \A i \in 1..Len(units) : i # unit_parent => SameLinks(i)
                      /\ roots' = roots
            /\ call'.endpoint = "none" =>
                  /\ roots' = Append(roots, unit)
                  /\ cables'[new].parent = 0
                  /\ units'[unit].parent = 0
                  /\ units'[unit].children = <<>>
                  /\ \A i \in 1..Len(units) : SameLinks(i)
    ]_vars

\* Point 0 of cable 1 was created with endpoint (0, 1): its unit branch 3
\* hangs under unit branch 2, and unit branch 1 is a root.
C9_Witness ==
    /\ call.op = "create_location" /\ err = NoError
    /\ call.endpoint = "created" /\ call.endpoint_arg = <<0, 1>>
    /\ Len(cables) = 2 /\ Len(units) = 3
    /\ cables[2].parent = 1
    /\ units[3].parent = 2
    /\ roots = <<1>>

(***************************************************************************)
(* The frozen schematic.                                                   *)
(***************************************************************************)
\* C6: after a successful freeze(), every further freeze() call returns
\* without raising and leaves every unit branch's resolved definition, the
\* name, the instance-name counter and the frozen flag as they were.
C6_FreezeIdempotent ==
    [][(frozen /\ call'.op = "freeze") =>
        /\ err' = NoError
        /\ units' = units
        /\ name' = name
        /\ named' = named
        /\ frozen' = TRUE
        /\ definition' = definition
    ]_vars

\* freeze() was called on a schematic that was already frozen, had named an
\* instance and holds resolved unit branches.
C6_Witness ==
    /\ frozen /\ call.op = "freeze" /\ err = NoError
    /\ named > 0
    /\ Len(Yielded) >= 2

\* C7: once freeze() has succeeded the schematic stays frozen, and every
\* later call of create_location, create_empty, the name setter or the
\* definition setter raises FrozenError and leaves cables, roots, points
\* (and their unit branches), name and definition unchanged.
C7_FrozenForever ==
    [][frozen =>
        /\ frozen'
        /\ call'.op \in {"create_location", "create_empty", "name", "definition"} =>
              /\ err' = "FrozenError"
              /\ UNCHANGED <<cables, roots, units, name, definition>>
    ]_vars

\* The definition setter was refused on a frozen schematic that has points.
C7_Witness ==
    /\ frozen /\ call.op = "definition" /\ err = "FrozenError"
    /\ TotalPoints(cables) > 0

\* C8: create_name() raises FrozenError and does not advance the counter
\* while the schematic is unfrozen; on a frozen schematic each call advances
\* the counter by one and returns "{name}_{counter}"; the counter starts at 0
\* and nothing else changes it or the frozen schematic's name, so the k-th
\* successful call returns "{name}_{k}" and no name is returned twice.
C8_CreateNameCounts ==
    [][/\ (call'.op = "create_name" /\ ~frozen) =>
              err' = "FrozenError" /\ named' = named
       /\ (call'.op = "create_name" /\ frozen) =>
              /\ err' = NoError
              /\ named' = named + 1
              /\ ret' = <<name, named + 1>>
              /\ name' = name
       /\ call'.op # "create_name" => named' = named /\ (frozen => name' = name)
       /\ ~frozen => named = 0
    ]_vars

\* The second create_name() call on a frozen schematic returned "{name}_2".
C8_Witness ==
    /\ frozen /\ call.op = "create_name" /\ err = NoError
    /\ named = 2
    /\ ret = <<name, 2>>

(***************************************************************************)
(* Constraints (constraints.py).  A Constraint is [upper, lower,           *)
(* tolerance]; each is <<>> for None or <<n>> for the number n.  Numbers   *)
(* are integers and a tolerance is in percent, so that a bound read        *)
(* through a tolerance t is n * (100 - t), in hundredths.                  *)
(***************************************************************************)
TypeError == "TypeError"

\* Constraint.__init__
NewConstraint == [upper |-> <<>>, lower |-> <<>>, tolerance |-> <<>>]

\* Constraint.from_value for None or a scalar: both bounds are the value.
from_value(value) == [NewConstraint EXCEPT !.upper = value, !.lower = value]

\* Constraint.set_tolerance
set_tolerance(c, tolerance) == [c EXCEPT !.tolerance = tolerance]

\* The `upper` property: `value *= 1 - self.tolerance` on a None value is a
\* TypeError.  Without a tolerance the value is returned as it is.
ConstraintUpper(c) ==
    IF c.tolerance = <<>> THEN [err |-> NoError, val |-> c.upper]
    ELSE IF c.upper = <<>> THEN [err |-> TypeError, val |-> <<>>]
    ELSE [err |-> NoError, val |-> <<c.upper[1] * (100 - c.tolerance[1])>>]

\* _util.is_empty_constraint on a Constraint: `value.upper is None`.
IsEmptyConstraint(c) ==
    LET upper == ConstraintUpper(c)
    IN  [err |-> upper.err, val |-> upper.err = NoError /\ upper.val = <<>>]

\* CablePropertyConstraints(**cable_dict) / IonConstraints(**ion_dict):
\* every field, given or left at its None default, becomes a Constraint
\* (__post_init__).  `given` maps the fields to <<>> or <<n>>.
ConstraintRecord(given) == [f \in DOMAIN given |-> from_value(given[f])]

\* ConstraintsDefinition.set_tolerance on the fields of one record.
RecordSetTolerance(rec, tolerance) ==
    [f \in DOMAIN rec |-> set_tolerance(rec[f], tolerance)]

\* Merge.merge on records of constraints, field by field in declaration
\* order: a field of `other` that is not an empty constraint overwrites
\* self's; an exception leaves the fields already merged in place.
RECURSIVE MergeConstraints(_, _, _)
MergeConstraints(self, other, fields) ==
    IF fields = <<>> THEN [err |-> NoError, val |-> self]
    ELSE LET f == Head(fields)
             empty == IsEmptyConstraint(other[f])
         IN  IF empty.err # NoError THEN [err |-> empty.err, val |-> self]
             ELSE MergeConstraints(IF empty.val THEN self
                                   ELSE [self EXCEPT ![f] = other[f]],
                                   other, Tail(fields))

(***************************************************************************)
(* Objects with identity.  A Mechanism's parameters dict is mutable and is *)
(* what two mechanisms can share: `heap` is a list of parameter dicts and  *)
(* a Mechanism is [parameters |-> reference], a Synapse has a mech_id too. *)
(***************************************************************************)
\* Mechanism.copy / Synapse.copy: a new object on a new parameters dict.
MechanismCopy(heap, self) ==
    [heap |-> Append(heap, heap[self.parameters]),
     obj |-> [self EXCEPT !.parameters = Len(heap) + 1]]

\* Mechanism.merge(other) (inherited by Synapse): writes into the dict
\* self.parameters refers to, and nothing else.
MechanismMergeHeap(heap, self, other) ==
    [heap EXCEPT ![self.parameters] = MergeParameters(@, heap[other.parameters])]

\* CableType.copy: a plain CableType holding copies of every part.
CableTypeCopy(self) ==
    [cable |-> Copy(self.cable),
     ions |-> [i \in 1..Len(self.ions) |->
                  [k |-> self.ions[i].k, v |-> Copy(self.ions[i].v)]],
     mechs |-> [i \in 1..Len(self.mechs) |->
                  [k |-> self.mechs[i].k, v |-> Copy(self.mechs[i].v)]],
     synapses |-> [i \in 1..Len(self.synapses) |->
                  [k |-> self.synapses[i].k, v |-> Copy(self.synapses[i].v)]],
     default_ions |-> FALSE]

(***************************************************************************)
(* SpecMerge: a.copy().merge(b) on every record type, and merge on records *)
(* of constraints.  `call` holds the operands, `ret` the outcome.          *)
(***************************************************************************)
Scalars == { None, "1", "2" }
CablePool == { CableProperties(Ra, cm) : Ra \in Scalars, cm \in Scalars }
IonPool ==
    { Ion(rev_pot, int_con, None) : rev_pot \in Scalars, int_con \in Scalars }
    \cup { Ion(None, "1", ext_con) : ext_con \in Scalars }
ParameterDicts ==
    { EmptyDict }
    \cup { Dict1("g", v) : v \in Scalars }
    \cup { Dict2("e", "1", "g", v) : v \in Scalars }
MechIds == { "ExpSyn", "AMPA" }
CableTypePool ==
    { [NewCableType EXCEPT !.cable = cable, !.ions = ions, !.mechs = mechs,
                           !.synapses = synapses] :
        cable \in { CableProperties(None, None), CableProperties("1", None) },
        ions \in { EmptyDict, Dict1("ca", Ion("1", None, None)),
                   Dict1("ca", Ion(None, "2", None)) },
        mechs \in { EmptyDict, Dict1("pas", Mechanism(Dict1("g", "1"))),
                    Dict1("pas", Mechanism(Dict1("e", "2"))) },
        synapses \in { EmptyDict, Dict1("syn", Synapse(Dict1("tau", "1"), "ExpSyn")),
                       Dict1("syn", Synapse(Dict1("tau", "2"), "AMPA")) } }

Bounds == { <<>>, <<10>>, <<20>> }
Tolerances == { <<>>, <<10>> }
GivenCables == { [Ra |-> Ra, cm |-> cm] : Ra \in Bounds, cm \in Bounds }

\* a.copy().merge(b) on two CableProperties or two Ions.
MergeRecords(type, a, b) ==
    /\ call' = [op |-> "merge", type |-> type, a |-> a, b |-> b]
    /\ Return(Merge(Copy(a), b))
    /\ UNCHANGED <<frozen, name, named, definition, cables, units, roots>>

\* a.copy().merge(b) on two Mechanisms or two Synapses whose parameter
\* dicts are cells 1 and 2 of the heap.
MergeMechanisms(type, a, b, pa, pb) ==
    LET heap == <<pa, pb>>
        copied == MechanismCopy(heap, a)
    IN  /\ call' = [op |-> "merge", type |-> type, a |-> a, b |-> b, heap |-> heap]
        /\ Return([result |-> copied.obj,
                   heap |-> MechanismMergeHeap(copied.heap, copied.obj, b)])
        /\ UNCHANGED <<frozen, name, named, definition, cables, units, roots>>

\* a.copy().merge(b) on two CableTypes.
MergeCableTypes(a, b) ==
    LET r == CableTypeMerge(CableTypeCopy(a), b)
    IN  /\ call' = [op |-> "merge", type |-> "CableType", a |-> a, b |-> b]
        /\ err' = r.err
        /\ ret' = r.val
        /\ UNCHANGED <<frozen, name, named, definition, cables, units, roots>>

\* a.merge(b) on two CablePropertyConstraints parsed from dicts that give
\* some of the fields, after set_tolerance(tolerance) on both.
MergeConstrained(given_a, given_b, tolerance) ==
    LET a == RecordSetTolerance(ConstraintRecord(given_a), tolerance)
        b == RecordSetTolerance(ConstraintRecord(given_b), tolerance)
        r == MergeConstraints(a, b, CableFields)
    IN  /\ call' = [op |-> "merge_constraints", a |-> a, b |-> b,
                    tolerance |-> tolerance]
        /\ err' = r.err
        /\ ret' = r.val
        /\ UNCHANGED <<frozen, name, named, definition, cables, units, roots>>

\* Each behaviour makes one call on operands built for it.
Fresh == call.op = "__init__"

NextMerge ==
    \/ \E a, b \in CablePool : Fresh /\ MergeRecords("CableProperties", a, b)
    \/ \E a, b \in IonPool : Fresh /\ MergeRecords("Ion", a, b)
    \/ \E pa, pb \in ParameterDicts :
          /\ Fresh
          /\ MergeMechanisms("Mechanism", [parameters |-> 1], [parameters |-> 2], pa, pb)
    \/ \E pa, pb \in ParameterDicts : \E ida, idb \in MechIds :
          /\ Fresh
          /\ MergeMechanisms("Synapse", [parameters |-> 1, mech_id |-> to_mech_id(ida)],
                             [parameters |-> 2, mech_id |-> to_mech_id(idb)], pa, pb)
    \/ \E a, b \in CableTypePool : Fresh /\ MergeCableTypes(a, b)
    \/ \E given_a, given_b \in GivenCables : \E tolerance \in Tolerances :
          Fresh /\ MergeConstrained(given_a, given_b, tolerance)

SpecMerge == InitBuild /\ [][NextMerge]_vars

\* The value of parameter key in a parameters dict, None when it has none.
ParameterOf(parameters, key) ==
    IF DictHas(parameters, key) THEN DictGet(parameters, key) ELSE None

\* b's value where b sets one, else a's.
RightBiased(a_value, b_value) == IF b_value # None THEN b_value ELSE a_value

\* C11 as stated: after a.copy().merge(b), for every record type, b is
\* unchanged, the result shares no mutable record with b, every field or
\* parameter that is unset (None) in b keeps a's value and every one set in b
\* takes b's value.
C11_MergeRightBiasedNonDestructive ==
    call.op = "merge" =>
        /\ err = NoError
        /\ call.type \in {"CableProperties", "Ion"} =>
              \A f \in DOMAIN call.b : ret[f] = RightBiased(call.a[f], call.b[f])
        /\ call.type \in {"Mechanism", "Synapse"} =>
              /\ ret.heap[call.b.parameters] = call.heap[call.b.parameters]
              /\ ret.result.parameters # call.b.parameters
              /\ \A key \in {"e", "g"} :
                    ParameterOf(ret.heap[ret.result.parameters], key)
                      = RightBiased(ParameterOf(call.heap[call.a.parameters], key),
                                    ParameterOf(call.heap[call.b.parameters], key))
        /\ call.type = "Synapse" => ret.result.mech_id = call.b.mech_id
        /\ call.type = "CableType" =>
              /\ \A F \in FieldPaths :
                    Lookup(ret, F) = RightBiased(Lookup(call.a, F), Lookup(call.b, F))
              /\ DictHas(call.b.synapses, "syn") =>
                    DictGet(ret.synapses, "syn").mech_id
                      = DictGet(call.b.synapses, "syn").mech_id

\* C12 as stated: a Constraint whose upper bound is unset is treated as
\* absent by merge, for every tolerance setting: merging never raises
\* because of it and it never overwrites the value self holds.
C12_EmptyConstraintAbsentInMerge ==
    call.op = "merge_constraints" =>
        /\ err = NoError
        /\ \A f \in DOMAIN call.b : call.b[f].upper = <<>> => ret[f] = call.a[f]

(***************************************************************************)
(* SpecResolve: freezing trees of soma, apical and basal branches under    *)
(* the definitions of tests/data/models.py and test_neuron_models.py, with *)
(* and without defaults.  Cables are attached by the endpoint of a created *)
(* point given with point 0 of a new cable.                                *)
(***************************************************************************)
\* models.pas
PasSoma ==
    [NewCableType EXCEPT
        !.cable = CableProperties("10", "1"),
        !.mechs = Dict1("pas", Mechanism(Dict2("e", "-70", "g", "0.01"))),
        !.ions = Dict1("ca", Ion("10", "10", "10"))]
PasDendrite == [NewCableType EXCEPT !.cable = CableProperties("10", "1")]
PasModel(use_defaults) ==
    Def(<<[k |-> "soma", v |-> PasSoma],
          [k |-> "apical_dendrite", v |-> PasDendrite],
          [k |-> "basal_dendrite", v |-> PasDendrite]>>, EmptyDict, use_defaults)

\* A soma that declares no ions and a dendrite that declares sodium and
\* potassium without giving all of their values.
BareSoma == [NewCableType EXCEPT !.cable = CableProperties("10", "1")]
SodiumDendrite ==
    [NewCableType EXCEPT
        !.ions = Dict2("na", Ion(None, None, None), "k", Ion("-80.993", None, None))]
BackfillModel ==
    Def(Dict2("soma", BareSoma, "apical_dendrite", SodiumDendrite), EmptyDict, TRUE)

\* The definition of test_cable_building, and a dendrite with chloride.
CableBuildingSoma ==
    [NewCableType EXCEPT
        !.cable = CableProperties("102", "2.1"),
        !.ions = Dict2("k", Ion("-80.993", "60", "4"), "na", Ion("137.5", "20", "130")),
        !.mechs = Dict1("pas", Mechanism(Dict2("e", "-70", "g", "0.01")))]
ChlorideDendrite ==
    [NewCableType EXCEPT !.ions = Dict1("cl", Ion("-65", "4", "110"))]
CableBuildingModel ==
    Def(Dict2("soma", CableBuildingSoma, "basal_dendrite", ChlorideDendrite),
        EmptyDict, TRUE)

\* A soma whose cable omits Ra.
NoRaSoma == [NewCableType EXCEPT !.cable = CableProperties(None, "1")]
NoRaModel ==
    Def(Dict2("soma", NoRaSoma, "apical_dendrite", PasDendrite), EmptyDict, FALSE)

ResolveDefinitions ==
    { PasModel(FALSE), PasModel(TRUE), BackfillModel, CableBuildingModel, NoRaModel }
ResolveLabelLists ==
    { <<>>, <<"soma">>, <<"apical_dendrite">>, <<"basal_dendrite">>,
      <<"apical_dendrite", "soma">> }

\* The points created so far, as endpoints.
CreatedPoints(cs) ==
    { e \in (0..(MaxCables - 1)) \X (0..(MaxPoints - 1)) : IsCreatedPoint(cs, e) }

NextResolve ==
    \/ \E location \in NextLocations(cables),
          coords \in CoordsPool, radius \in RadiusPool, labels \in ResolveLabelLists,
          endpoint \in {NoEndpoint} \cup CreatedPoints(cables) :
            /\ endpoint # NoEndpoint => location = <<Len(cables), 0>>
            /\ CreateLocation(location, coords, radius, labels, endpoint)
            /\ Within(MaxCables, MaxPoints)
    \/ \E value \in ResolveDefinitions : SetDefinition(value)
    \/ Freeze

SpecResolve == InitBuild /\ [][NextResolve]_vars

(***************************************************************************)
(* Resolution.                                                             *)
(***************************************************************************)
\* The keys of a dict, as a set.
KeySet(d) == { d[i].k : i \in 1..Len(d) }

\* The cable types of the labels a unit branch carries.
OwnCableTypes(unit) ==
    { DictGet(definition.cable_types, unit.labels[j]) :
        j \in { h \in 1..Len(unit.labels) : Registered(definition, unit.labels[h]) } }

\* C13: after freeze, a mechanism is in a unit branch's resolved definition
\* if and only if the cable type of at least one of the branch's own labels
\* defines it; under the pas model every soma branch resolves to pas with
\* e = -70 and g = 0.01 and every other branch to no mechanisms.
C13_MechanismsFromOwnLabels ==
    frozen =>
        \A i \in 1..Len(Yielded) :
            LET unit == units[Yielded[i]]
                resolved == unit.definition[1]
            IN  /\ KeySet(resolved.mechs)
                      = UNION { KeySet(ct.mechs) : ct \in OwnCableTypes(unit) }
                /\ definition \in { PasModel(FALSE), PasModel(TRUE) } =>
                      IF Carries(unit, "soma")
                      THEN /\ KeySet(resolved.mechs) = {"pas"}
                           /\ Lookup(resolved, <<"mechs", "pas", "e">>) = "-70"
                           /\ Lookup(resolved, <<"mechs", "pas", "g">>) = "0.01"
                      ELSE resolved.mechs = EmptyDict

\* A frozen schematic under the pas model with a soma branch and, attached
\* to it, an apical branch.
C13_Witness ==
    /\ frozen
    /\ definition = PasModel(FALSE)
    /\ \E i, j \in 1..Len(Yielded) :
          /\ units[Yielded[i]].labels = <<"soma">>
          /\ units[Yielded[j]].labels = <<"apical_dendrite">>
          /\ units[Yielded[j]].parent = Yielded[i]
          /\ units[Yielded[j]].definition[1].mechs = EmptyDict

\* The cable type gives no value for any ion.
SetsNoIonValues(ct) ==
    \A i \in 1..Len(ct.ions) : \A f \in DOMAIN ct.ions[i].v : ~IsSet(ct.ions[i].v[f])

\* C14 as stated: with use_defaults=True, after freeze the resolved
\* definition of a branch carrying a label whose cable type sets no ion
\* values has ions["na"] equal to the built-in default (rev_pot=50.0,
\* int_con=10.0, ext_con=140.0).
C14_DefaultSodiumBackfilled ==
    (frozen /\ definition.use_defaults) =>
        \A i \in 1..Len(Yielded) :
            LET unit == units[Yielded[i]]
                resolved == unit.definition[1]
            IN  (/\ OwnCableTypes(unit) # {}
                 /\ \A ct \in OwnCableTypes(unit) : SetsNoIonValues(ct))
                => /\ DictHas(resolved.ions, "na")
                   /\ DictGet(resolved.ions, "na") = Ion("50.0", "10.0", "140.0")

\* Label lbl is the last registered of the labels the unit carries.
LastRegisteredOf(unit, lbl) ==
    /\ Carries(unit, lbl) /\ Registered(definition, lbl)
    /\ \A j \in 1..Len(unit.labels) :
          Registered(definition, unit.labels[j])
          => RegisteredAt(definition, unit.labels[j]) <= RegisteredAt(definition, lbl)

\* Every value cable type ct sets is the value `resolved` holds.
ExplicitValuesKept(ct, resolved) ==
    /\ \A f \in DOMAIN ct.cable : IsSet(ct.cable[f]) => resolved.cable[f] = ct.cable[f]
    /\ \A i \in 1..Len(ct.ions) : \A f \in DOMAIN ct.ions[i].v :
          IsSet(ct.ions[i].v[f]) =>
              /\ DictHas(resolved.ions, ct.ions[i].k)
              /\ DictGet(resolved.ions, ct.ions[i].k)[f] = ct.ions[i].v[f]
    /\ \A i \in 1..Len(ct.mechs) : \A j \in 1..Len(ct.mechs[i].v.parameters) :
          /\ DictHas(resolved.mechs, ct.mechs[i].k)
          /\ ParameterOf(DictGet(resolved.mechs, ct.mechs[i].k).parameters,
                         ct.mechs[i].v.parameters[j].k)
               = ct.mechs[i].v.parameters[j].v

\* C15 as stated: with use_defaults=True freeze succeeds, and every value a
\* label's cable type sets explicitly is the resolved value on the branches
\* that carry the label (and no label registered later), for every ion
\* name, those without a built-in default included.
C15_DefaultsKeepExplicitValues ==
    (call.op = "freeze" /\ definition.use_defaults) =>
        /\ err = NoError
        /\ frozen
        /\ \A i \in 1..Len(Yielded) : \A lbl \in KeySet(definition.cable_types) :
              LastRegisteredOf(units[Yielded[i]], lbl) =>
                  ExplicitValuesKept(DictGet(definition.cable_types, lbl),
                                     units[Yielded[i]].definition[1])

\* The labels of unit branch u leave cable.Ra unset.
LeavesRaUnset(u) == ~IsSet(_makedef(definition, units[u].labels).val.cable.Ra)

\* The location string of unit branch u, read off the cables: "location
\* (b.p)" for one point, "interval (b.p1-p2)" for more.
LocationString(u) ==
    LET c == CHOOSE b \in 1..Len(cables) :
                 \E p \in 1..Len(cables[b].points) : cables[b].points[p].branch = u
        held == { p \in 1..Len(cables[c].points) : cables[c].points[p].branch = u }
        first == CHOOSE p \in held : \A q \in held : p <= q
        last == CHOOSE p \in held : \A q \in held : p >= q
    IN  IF first = last THEN <<"location", c - 1, first - 1>>
        ELSE <<"interval", c - 1, first - 1, last - 1>>

\* C16: with use_defaults=False, freezing a schematic in which some unit
\* branch's labels leave cable.Ra unset fails and leaves it unfrozen, and the
\* message names Ra, the location string of such a branch and, when the
\* branch is labelled, its label list.
C16_MissingRaReported ==
    (/\ call.op = "freeze"
     /\ ~definition.use_defaults
     /\ \E i \in 1..Len(Yielded) : LeavesRaUnset(Yielded[i])) =>
        /\ ~frozen
        /\ err \in {"ValueError", "ModelDefinitionError"}
        /\ \E i \in 1..Len(Yielded) :
              LET u == Yielded[i]
              IN  /\ LeavesRaUnset(u)
                  /\ IF units[u].labels = <<>>
                     THEN /\ err = "ValueError"
                          /\ ret = <<"Unlabeled", LocationString(u), "Ra">>
                     ELSE /\ err = "ModelDefinitionError"
                          /\ ret = <<LocationString(u), units[u].labels, <<"Ra">>>>

\* freeze() failed on the two-point soma branch of cable 1, which hangs
\* under a resolved apical branch: "interval (1.0-1) labelled 'soma'".
C16_Witness ==
    /\ call.op = "freeze" /\ err = "ModelDefinitionError"
    /\ definition = NoRaModel
    /\ ret = << <<"interval", 1, 0, 1>>, <<"soma">>, <<"Ra">> >>
    /\ units[1].labels = <<"apical_dendrite">>

(***************************************************************************)
(* Dict-literal definitions (definitions.py, define_model).  A value of a  *)
(* literal is tagged with its Python type: None, a number, a str, a tuple  *)
(* of strs or a dict, whose items are [k, v] entries in key order.         *)
(***************************************************************************)
PyNone == [py |-> "None"]
PyScalar(v) == [py |-> "scalar", v |-> v]
PyStr(v) == [py |-> "str", v |-> v]
PyTuple(parts) == [py |-> "tuple", parts |-> parts]
PyDict(items) == [py |-> "dict", items |-> items]
IsDict(value) == value.py = "dict"

\* The scalar a record field or a parameter holds for a literal's value.
ScalarOf(value) == IF value.py = "None" THEN None ELSE value.v

\* dict.get(key, {}).
GetOrEmpty(d, key) == IF DictHas(d.items, key) THEN DictGet(d.items, key) ELSE PyDict(<<>>)

ModelDefinitionError == "ModelDefinitionError"
Failed(kind, sub) == [err |-> kind, named |-> sub, val |-> <<>>]
Parsed(val) == [err |-> NoError, named |-> PyNone, val |-> val]

\* cls(**kwargs) for a dataclass with the given fields: TypeError unless
\* kwargs is a mapping whose keys are all fields; a field not given is None.
Construct(fields, kwargs) ==
    IF ~IsDict(kwargs) \/ \E i \in 1..Len(kwargs.items) :
                              \A j \in 1..Len(fields) : kwargs.items[i].k # fields[j]
    THEN Failed(TypeError, kwargs)
    ELSE Parsed([f \in { fields[j] : j \in 1..Len(fields) } |->
                    IF DictHas(kwargs.items, f) THEN ScalarOf(DictGet(kwargs.items, f))
                    ELSE None])

\* dict.copy() of a parameters dict.
ParametersOf(d) ==
    [i \in 1..Len(d.items) |-> [k |-> d.items[i].k, v |-> ScalarOf(d.items[i].v)]]

\* definitions.to_mech_id on a literal's value.
ToMechId(value) ==
    IF value.py = "None" THEN Failed("ValueError", value)
    ELSE IF value.py = "tuple" THEN Parsed(value.parts)
    ELSE Parsed(<<value.v>>)

\* _parse_ion_def
_parse_ion_def(ion_dict) ==
    LET ion == Construct(IonFields, ion_dict)
    IN  IF ion.err # NoError THEN Failed(ModelDefinitionError, ion_dict) ELSE ion

\* _parse_mech_def
_parse_mech_def_empty(mech_dict) ==
    IF ~IsDict(mech_dict) THEN Failed(ModelDefinitionError, mech_dict)
    ELSE Parsed(Mechanism(EmptyDict))
_parse_mech_def(mech_dict) ==
    IF ~IsDict(mech_dict) THEN Failed(ModelDefinitionError, mech_dict)
    ELSE Parsed(Mechanism(ParametersOf(mech_dict)))

\* _parse_synapse_def(key, synapse_dict)
_parse_synapse_def(key, synapse_dict) ==
    IF ~IsDict(synapse_dict) THEN Failed(ModelDefinitionError, synapse_dict)
    ELSE IF DictHas(synapse_dict.items, "mechanism")
    THEN LET parameters == GetOrEmpty(synapse_dict, "parameters")
             mech_id == ToMechId(DictGet(synapse_dict.items, "mechanism"))
         IN  IF ~IsDict(parameters) \/ mech_id.err # NoError
             THEN Failed(ModelDefinitionError, synapse_dict)
             ELSE Parsed([parameters |-> ParametersOf(parameters),
                          mech_id |-> mech_id.val])
    ELSE LET parameters == IF DictHas(synapse_dict.items, "parameters")
                           THEN DictGet(synapse_dict.items, "parameters")
                           ELSE synapse_dict
         IN  IF ~IsDict(parameters)
             THEN Failed(ModelDefinitionError, synapse_dict)
             ELSE Parsed(Synapse(ParametersOf(parameters), key))

\* CableType.add_ion(key, ion) on an ions dict.
add_ion_overwrites(ions, key, ion) ==
    IF DictHas(ions, key) THEN [err |-> "KeyError", val |-> DictSet(ions, key, ion)]
    ELSE [err |-> NoError, val |-> DictSet(ions, key, ion)]
add_ion(ions, key, ion) ==
    IF DictHas(ions, key) THEN [err |-> "KeyError", val |-> ions]
    ELSE [err |-> NoError, val |-> DictSet(ions, key, ion)]

\* CableType.add_mech(mech_id, mech) on a mechs dict, for a mechanism id
\* that is a string (is_mech_id holds of every string).
add_mech(mechs, mech_id, mech) ==
    IF ~is_mech_id(to_mech_id(mech_id)) THEN [err |-> "ValueError", val |-> mechs]
    ELSE IF DictHas(mechs, mech_id) THEN [err |-> "KeyError", val |-> mechs]
    ELSE [err |-> NoError, val |-> DictSet(mechs, mech_id, mech)]

\* Definition.add_synapse_type(label, synapse)
add_synapse_type(def, label, synapse) ==
    IF ~is_mech_id(IF synapse.mech_id # <<>> THEN synapse.mech_id ELSE to_mech_id(label))
    THEN [err |-> "ValueError", val |-> def]
    ELSE IF DictHas(def.synapse_types, label) THEN [err |-> "KeyError", val |-> def]
    ELSE [err |-> NoError,
          val |-> [def EXCEPT !.synapse_types = DictSet(@, label, synapse)]]

\* Definition.get_cable_types: a dict of copies.
get_cable_types(def) ==
    [i \in 1..Len(def.cable_types) |->
        [k |-> def.cable_types[i].k, v |-> CableTypeCopy(def.cable_types[i].v)]]

\* Definition.copy: the cable types are copied (def_.copy()), the synapse
\* types are registered as they are (def_, the same objects).
DefinitionCopy(def) ==
    [cable_types |-> get_cable_types(def),
     synapse_types |-> def.synapse_types,
     shared |-> { def.synapse_types[i].k : i \in 1..Len(def.synapse_types) }]

\* The three loops of _parse_cable_type over the items of a sub-dictionary:
\* each returns [err, val], err being the exception that ended the loop.
RECURSIVE ParseIons(_, _)
ParseIons(ions, items) ==
    IF items = <<>> THEN [err |-> NoError, val |-> ions]
    ELSE Once(_parse_ion_def(Head(items).v),
              LAMBDA parsed :
                 IF parsed.err # NoError THEN [err |-> parsed.err, val |-> ions]
                 ELSE Once(add_ion(ions, Head(items).k, parsed.val),
                           LAMBDA r : IF r.err # NoError THEN r
                                      ELSE ParseIons(r.val, Tail(items))))

RECURSIVE ParseMechs(_, _)
ParseMechs(mechs, items) ==
    IF items = <<>> THEN [err |-> NoError, val |-> mechs]
    ELSE Once(_parse_mech_def(Head(items).v),
              LAMBDA parsed :
                 IF parsed.err # NoError THEN [err |-> parsed.err, val |-> mechs]
                 ELSE Once(add_mech(mechs, Head(items).k, parsed.val),
                           LAMBDA r : IF r.err # NoError THEN r
                                      ELSE ParseMechs(r.val, Tail(items))))

RECURSIVE ParseSynapses(_, _)
ParseSynapses(synapses, items) ==
    IF items = <<>> THEN [err |-> NoError, val |-> synapses]
    ELSE Once(_parse_synapse_def(Head(items).k, Head(items).v),
              LAMBDA parsed :
                 IF parsed.err # NoError THEN [err |-> parsed.err, val |-> synapses]
                 ELSE Once(add_synapse(synapses, Head(items).k, parsed.val),
                           LAMBDA r : IF r.err # NoError THEN r
                                      ELSE ParseSynapses(r.val, Tail(items))))

\* _parse_cable_type: whatever is raised inside the try block, the errors
\* of the nested parsers included, leaves as a ModelDefinitionError whose
\* message holds cable_dict.
_parse_cable_type(cable_dict) ==
    IF ~IsDict(cable_dict) THEN Failed(ModelDefinitionError, cable_dict)
    ELSE LET cable == Construct(CableFields, GetOrEmpty(cable_dict, "cable"))
             ions_dict == GetOrEmpty(cable_dict, "ions")
             mechs_dict == GetOrEmpty(cable_dict, "mechanisms")
             synapses_dict == GetOrEmpty(cable_dict, "synapses")
             ions == IF IsDict(ions_dict) THEN ParseIons(EmptyDict, ions_dict.items)
                     ELSE [err |-> "AttributeError", val |-> EmptyDict]
             mechs == IF IsDict(mechs_dict) THEN ParseMechs(EmptyDict, mechs_dict.items)
                      ELSE [err |-> "AttributeError", val |-> EmptyDict]
             synapses == IF IsDict(synapses_dict)
                         THEN ParseSynapses(EmptyDict, synapses_dict.items)
                         ELSE [err |-> "AttributeError", val |-> EmptyDict]
         IN  IF \/ cable.err # NoError \/ ions.err # NoError
                \/ mechs.err # NoError \/ synapses.err # NoError
             THEN Failed(ModelDefinitionError, cable_dict)
             ELSE Parsed([cable |-> cable.val, ions |-> ions.val, mechs |-> mechs.val,
                          synapses |-> synapses.val, default_ions |-> FALSE])

\* The two loops of _parse_dict_def: nothing is caught here, so an error of
\* add_cable_type or add_synapse_type leaves as it was raised.
RECURSIVE ParseCableTypes(_, _)
ParseCableTypes(model, items) ==
    IF items = <<>> THEN Parsed(model)
    ELSE Once(_parse_cable_type(Head(items).v),
              LAMBDA ct :
                 IF ct.err # NoError THEN ct
                 ELSE Once(add_cable_type(model, Head(items).k, ct.val),
                           LAMBDA r : IF r.err # NoError THEN Failed(r.err, PyNone)
                                      ELSE ParseCableTypes(r.val, Tail(items))))

RECURSIVE ParseSynapseTypes(_, _)
ParseSynapseTypes(model, items) ==
    IF items = <<>> THEN Parsed(model)
    ELSE Once(_parse_synapse_def(Head(items).k, Head(items).v),
              LAMBDA st :
                 IF st.err # NoError THEN st
                 ELSE Once(add_synapse_type(model, Head(items).k, st.val),
                           LAMBDA r : IF r.err # NoError THEN Failed(r.err, PyNone)
                                      ELSE ParseSynapseTypes(r.val, Tail(items))))

\* _parse_dict_def(ModelDefinition, def_dict)
_parse_dict_def(def_dict) ==
    LET cable_types == GetOrEmpty(def_dict, "cable_types")
        synapse_types == GetOrEmpty(def_dict, "synapse_types")
    IN  IF ~IsDict(cable_types) THEN Failed("AttributeError", PyNone)
        ELSE Once(ParseCableTypes(NewDefinition, cable_types.items),
                  LAMBDA model :
                     IF model.err # NoError THEN model
                     ELSE IF ~IsDict(synapse_types) THEN Failed("AttributeError", PyNone)
                     ELSE ParseSynapseTypes(model.val, synapse_types.items))

\* define_model(def_dict, use_defaults=...)
define_model(def_dict, use_defaults) ==
    Once(_parse_dict_def(def_dict),
         LAMBDA model :
            IF model.err # NoError THEN model
            ELSE Parsed([model.val EXCEPT !.use_defaults = use_defaults]))

(***************************************************************************)
(* SpecParse: one call of define_model on a dict literal drawn from the    *)
(* pool below, followed by get_cable_types on the model it returns.  Each  *)
(* part of a cable type dict is absent, well-formed or malformed.          *)
(***************************************************************************)
Item(key, value) == [k |-> key, v |-> value]
\* The items a key contributes to a dict literal: none when it is left out.
Absent == <<>>
Given(key, value) == <<Item(key, value)>>

CableParts ==
    { Absent,
      Given("cable", PyDict(<<>>)),
      Given("cable", PyDict(<<Item("Ra", PyScalar("100"))>>)),
      Given("cable", PyDict(<<Item("cm", PyScalar("1")), Item("Ra", PyNone)>>)),
      Given("cable", PyDict(<<Item("Rm", PyScalar("5"))>>)),
      Given("cable", PyScalar("5")) }
IonParts ==
    { Absent,
      Given("ions", PyDict(<<Item("ca", PyDict(<<Item("rev_pot", PyScalar("132"))>>))>>)),
      Given("ions", PyDict(<<Item("na", PyDict(<<>>)),
                             Item("k", PyDict(<<Item("ext_con", PyScalar("2.5")),
                                                Item("int_con", PyScalar("54"))>>))>>)),
      Given("ions", PyDict(<<Item("ca", PyDict(<<Item("valence", PyScalar("2"))>>))>>)),
      Given("ions", PyDict(<<Item("ca", PyNone)>>)) }
MechanismParts ==
    { Absent,
      Given("mechanisms", PyDict(<<Item("pas", PyDict(<<Item("e", PyScalar("-70")),
                                                        Item("g", PyScalar("0.01"))>>))>>)),
      Given("mechanisms", PyDict(<<Item("pas", PyDict(<<>>)),
                                   Item("hh", PyDict(<<Item("gnabar", PyScalar("0.1"))>>))>>)),
      Given("mechanisms", PyDict(<<Item("pas", PyScalar("5"))>>)) }
ShortSynapse == PyDict(<<Item("tau", PyScalar("2")), Item("e", PyScalar("0"))>>)
ParametersSynapse ==
    PyDict(<<Item("parameters", PyDict(<<Item("tau", PyScalar("4"))>>))>>)
ExpandedSynapse ==
    PyDict(<<Item("mechanism", PyStr("ExpSyn")),
             Item("parameters", PyDict(<<Item("tau", PyScalar("3"))>>))>>)
TupleSynapse == PyDict(<<Item("mechanism", PyTuple(<<"AMPA", "kinetic">>))>>)
FourPartSynapse ==
    PyDict(<<Item("mechanism", PyTuple(<<"AMPA", "kinetic", "fast", "x">>))>>)
NoneMechanismSynapse == PyDict(<<Item("mechanism", PyNone)>>)
ScalarParametersSynapse ==
    PyDict(<<Item("mechanism", PyStr("ExpSyn")), Item("parameters", PyScalar("5"))>>)
SynapseDicts ==
    { ShortSynapse, ParametersSynapse, ExpandedSynapse, TupleSynapse,
      FourPartSynapse, NoneMechanismSynapse, ScalarParametersSynapse, PyScalar("5") }
SynapseParts ==
    {Absent} \cup { Given("synapses", PyDict(<<Item("syn", s)>>)) : s \in SynapseDicts }
             \cup { Given("synapses", PyDict(<<Item("ExpSyn", ShortSynapse),
                                               Item("syn", s)>>)) :
                      s \in {ExpandedSynapse, FourPartSynapse} }

CableTypeDicts ==
    { PyDict(c \o i \o m \o s) :
        c \in CableParts, i \in IonParts, m \in MechanismParts, s \in SynapseParts }
            \cup {PyNone}

\* Cable type dicts for the definitions with two labels.
FewCableTypeDicts ==
    { PyDict(c \o i) :
        c \in { Absent, Given("cable", PyDict(<<Item("Ra", PyScalar("100"))>>)),
                Given("cable", PyScalar("5")) },
        i \in { Absent,
                Given("ions", PyDict(<<Item("ca", PyDict(<<Item("rev_pot",
                                                               PyScalar("132"))>>))>>)) } }

CableTypesParts ==
    { Absent, Given("cable_types", PyDict(<<>>)) }
        \cup { Given("cable_types", PyDict(<<Item("soma", c)>>)) : c \in CableTypeDicts }
        \cup { Given("cable_types", PyDict(<<Item(l[1], c1), Item(l[2], c2)>>)) :
                 l \in { <<"soma", "basal_dendrite">>, <<"basal_dendrite", "soma">> },
                 c1 \in FewCableTypeDicts, c2 \in FewCableTypeDicts }
SynapseTypesParts ==
    { Absent,
      Given("synapse_types", PyDict(<<Item("ExpSyn", ShortSynapse),
                                      Item("syn", ExpandedSynapse)>>)),
      Given("synapse_types", PyDict(<<Item("syn", FourPartSynapse)>>)),
      Given("synapse_types", PyDict(<<Item("syn", NoneMechanismSynapse)>>)),
      Given("synapse_types", PyDict(<<Item("syn", PyScalar("5"))>>)) }
DictLiterals ==
    { PyDict(c \o s) : c \in CableTypesParts, s \in SynapseTypesParts }

\* s.ret = define_model(def_dict, use_defaults=...) with its cable types read
\* back; s.err is the exception that escaped.
ReadBack(model) ==
    [err |-> model.err, named |-> model.named, model |-> model.val,
     cable_types |-> IF model.err = NoError THEN get_cable_types(model.val) ELSE <<>>]
DefineModel(def_dict, use_defaults) ==
    /\ ret' = Once(define_model(def_dict, use_defaults), LAMBDA model : ReadBack(model))
    /\ err' = ret'.err
    /\ call' = [op |-> "define_model", def_dict |-> def_dict]
    /\ UNCHANGED <<frozen, name, named, definition, cables, units, roots>>

\* define_model(template, def_dict, use_defaults=...): the template is
\* copied, then model.merge is looked up, and Definition has no attribute of
\* that name; the dict literal is never parsed.
define_model_template(template, def_dict, use_defaults) ==
    Once(DefinitionCopy(template), LAMBDA model : Failed("AttributeError", PyNone))

\* s.ret = define_model(template, def_dict, use_defaults=...)
DefineModelTemplate(template, def_dict, use_defaults) ==
    /\ ret' = Once(define_model_template(template, def_dict, use_defaults),
                   LAMBDA model : ReadBack(model))
    /\ err' = ret'.err
    /\ call' = [op |-> "define_model_template", template |-> template,
                def_dict |-> def_dict, use_defaults |-> use_defaults]
    /\ UNCHANGED <<frozen, name, named, definition, cables, units, roots>>

Templates == { NewDefinition, Def(Dict1("soma", CtPartial), ExpSyn2, FALSE) }
TemplateLiterals ==
    { PyDict(<<>>) }
        \cup { PyDict(Given("cable_types", PyDict(<<Item("soma", c)>>))) :
                 c \in FewCableTypeDicts }

NextParse ==
    \/ Fresh /\ \E def_dict \in DictLiterals, use_defaults \in BOOLEAN :
                   DefineModel(def_dict, use_defaults)
    \/ Fresh /\ \E template \in Templates, def_dict \in TemplateLiterals,
                   use_defaults \in BOOLEAN :
                   DefineModelTemplate(template, def_dict, use_defaults)

SpecParse == InitBuild /\ [][NextParse]_vars

(***************************************************************************)
(* Properties of the dict-literal parser.                                  *)
(***************************************************************************)
\* What a literal sets for a field: its scalar, None when the key is absent.
SetIn(d, field) ==
    IF DictHas(d.items, field) THEN ScalarOf(DictGet(d.items, field)) ELSE None
\* The record read back holds what the literal sets, field by field.
ReadsBack(record, d, fields) ==
    \A j \in 1..Len(fields) : record[fields[j]] = SetIn(d, fields[j])
\* The parameters read back are the literal's: same keys, same order, same
\* scalars.
ParametersReadBack(parameters, d) ==
    /\ DictKeys(parameters) = DictKeys(d.items)
    /\ \A j \in 1..Len(parameters) : parameters[j].v = ScalarOf(d.items[j].v)
\* The parameters a synapse literal sets: those under "parameters", none
\* for an expanded literal without that key, else every item.
SynapseParametersIn(d) ==
    IF DictHas(d.items, "parameters") THEN DictGet(d.items, "parameters")
    ELSE IF DictHas(d.items, "mechanism") THEN PyDict(<<>>)
    ELSE d
CableTypeReadsBack(ct, d) ==
    LET ions == GetOrEmpty(d, "ions").items
        mechs == GetOrEmpty(d, "mechanisms").items
        synapses == GetOrEmpty(d, "synapses").items
    IN  /\ ReadsBack(ct.cable, GetOrEmpty(d, "cable"), CableFields)
        /\ DictKeys(ct.ions) = DictKeys(ions)
        /\ \A j \in 1..Len(ions) : ReadsBack(ct.ions[j].v, ions[j].v, IonFields)
        /\ DictKeys(ct.mechs) = DictKeys(mechs)
        /\ \A j \in 1..Len(mechs) :
              ParametersReadBack(ct.mechs[j].v.parameters, mechs[j].v)
        /\ DictKeys(ct.synapses) = DictKeys(synapses)
        /\ \A j \in 1..Len(synapses) :
              ParametersReadBack(ct.synapses[j].v.parameters,
                                 SynapseParametersIn(synapses[j].v))

\* C17: for every dict literal d that define_model accepts,
\* define_model(d).get_cable_types() has the labels of d["cable_types"] in
\* key order, every scalar d sets for a cable property, an ion field or a
\* mechanism or synapse parameter reads back unchanged, and what d leaves
\* out reads back unset (None, or no entry at all).
C17_DictLiteralRoundTrip ==
    (call.op = "define_model" /\ err = NoError) =>
        LET given == GetOrEmpty(call.def_dict, "cable_types").items
        IN  /\ DictKeys(ret.cable_types) = DictKeys(given)
            /\ \A i \in 1..Len(given) :
                  CableTypeReadsBack(ret.cable_types[i].v, given[i].v)

\* A literal with two labels whose cable types set a cable property and an
\* ion field was parsed and read back.
C17_Witness ==
    /\ call.op = "define_model" /\ err = NoError
    /\ Len(ret.cable_types) = 2
    /\ ret.cable_types[1].k = "basal_dendrite"
    /\ ret.cable_types[1].v.cable.Ra = "100"
    /\ Len(ret.cable_types[2].v.ions) = 1
    /\ ret.cable_types[2].v.cable.Ra = None

\* The sub-dictionaries of a literal: the values under cable_types and
\* under synapse_types.
SubDictionaries(d) ==
    LET cable_types == GetOrEmpty(d, "cable_types").items
        synapse_types == GetOrEmpty(d, "synapse_types").items
    IN  { cable_types[i].v : i \in 1..Len(cable_types) }
            \cup { synapse_types[i].v : i \in 1..Len(synapse_types) }

\* C18: whenever define_model fails on a dict literal, the exception that
\* escapes is a ModelDefinitionError whose message holds one of the
\* literal's sub-dictionaries; no other kind of exception escapes.
C18_ParseFailuresAreModelDefinitionErrors ==
    (call.op = "define_model" /\ err # NoError) =>
        /\ err = ModelDefinitionError
        /\ ret.named \in SubDictionaries(call.def_dict)

(***************************************************************************)
(* SpecRegistry: a Definition filled by hand.  s.definition is the         *)
(* Definition; the CableType objects it holds are the ones add_ion,        *)
(* add_mech and add_synapse are called on.                                 *)
(***************************************************************************)
MaxEntries == 3

RegistryLabels == {"soma", "basal_dendrite"}
RegistryCableTypes ==
    { NewCableType, [NewCableType EXCEPT !.cable = CableProperties("100", None)] }
RegistryIons == { Ion("50", None, None), Ion(None, "10", "140") }
RegistryIonNames == {"na", "k"}
RegistryMechanisms == { Mechanism(EmptyDict), Mechanism(<<[k |-> "g", v |-> "0.01"]>>) }
RegistryMechIds == {"pas"}
RegistrySynapses ==
    { Synapse(EmptyDict, "ExpSyn"), Synapse(<<[k |-> "tau", v |-> "2"]>>, "AMPA"),
      [parameters |-> EmptyDict, mech_id |-> <<"AMPA", "kinetic", "fast", "x">>] }
RegistrySynapseLabels == {"syn"}

\* The number of entries of every dict of the definition.
RECURSIVE EntriesOf(_)
EntriesOf(cable_types) ==
    IF cable_types = <<>> THEN 0
    ELSE 1 + Len(Head(cable_types).v.ions) + Len(Head(cable_types).v.mechs)
           + Len(Head(cable_types).v.synapses) + EntriesOf(Tail(cable_types))
Entries(def) == EntriesOf(def.cable_types) + Len(def.synapse_types)

\* The registry an add_* call works on, and whether it holds the key.
RegistryOf(def, c) ==
    IF c.op = "add_cable_type" THEN def.cable_types
    ELSE IF c.op = "add_synapse_type" THEN def.synapse_types
    ELSE IF c.op = "add_ion" THEN DictGet(def.cable_types, c.label).ions
    ELSE IF c.op = "add_mech" THEN DictGet(def.cable_types, c.label).mechs
    ELSE DictGet(def.cable_types, c.label).synapses
AddOps == {"add_cable_type", "add_synapse_type", "add_ion", "add_mech", "add_synapse"}

\* Room for one more entry, or a call on a key the registry already holds.
MayAdd(c) == Entries(definition) < MaxEntries \/ DictHas(RegistryOf(definition, c), c.key)

\* s.definition.add_cable_type(label, def_)
DefinitionAddCableType(label, def_) ==
    LET c == [op |-> "add_cable_type", label |-> label, key |-> label]
        r == add_cable_type(definition, label, def_)
    IN  /\ MayAdd(c)
        /\ definition' = r.val /\ err' = r.err /\ call' = c
        /\ UNCHANGED <<frozen, name, named, cables, units, roots, ret>>

\* s.definition.add_synapse_type(label, synapse)
AddSynapseType(label, synapse) ==
    LET c == [op |-> "add_synapse_type", label |-> None, key |-> label]
        r == add_synapse_type(definition, label, synapse)
    IN  /\ MayAdd(c)
        /\ definition' = r.val /\ err' = r.err /\ call' = c
        /\ UNCHANGED <<frozen, name, named, cables, units, roots, ret>>

\* The definition once the cable type registered under `label` is `ct`.
WithCableType(def, label, ct) == [def EXCEPT !.cable_types = DictSet(@, label, ct)]

\* ct.add_ion(key, ion) on the cable type registered under `label`
AddIon(label, key, ion) ==
    /\ DictHas(definition.cable_types, label)
    /\ LET c == [op |-> "add_ion", label |-> label, key |-> key]
           ct == DictGet(definition.cable_types, label)
           r == add_ion(ct.ions, key, ion)
       IN  /\ MayAdd(c)
           /\ definition' = WithCableType(definition, label, [ct EXCEPT !.ions = r.val])
           /\ err' = r.err /\ call' = c
    /\ UNCHANGED <<frozen, name, named, cables, units, roots, ret>>

\* ct.add_mech(mech_id, mech) on the cable type registered under `label`
AddMech(label, mech_id, mech) ==
    /\ DictHas(definition.cable_types, label)
    /\ LET c == [op |-> "add_mech", label |-> label, key |-> mech_id]
           ct == DictGet(definition.cable_types, label)
           r == add_mech(ct.mechs, mech_id, mech)
       IN  /\ MayAdd(c)
           /\ definition' = WithCableType(definition, label, [ct EXCEPT !.mechs = r.val])
           /\ err' = r.err /\ call' = c
    /\ UNCHANGED <<frozen, name, named, cables, units, roots, ret>>

\* ct.add_synapse(key, synapse) on the cable type registered under `label`
AddSynapse(label, key, synapse) ==
    /\ DictHas(definition.cable_types, label)
    /\ LET c == [op |-> "add_synapse", label |-> label, key |-> key]
           ct == DictGet(definition.cable_types, label)
           r == add_synapse(ct.synapses, key, synapse)
       IN  /\ MayAdd(c)
           /\ definition' = WithCableType(definition, label, [ct EXCEPT !.synapses = r.val])
           /\ err' = r.err /\ call' = c
    /\ UNCHANGED <<frozen, name, named, cables, units, roots, ret>>

NextRegistry ==
    \/ \E label \in RegistryLabels, def_ \in RegistryCableTypes : DefinitionAddCableType(label, def_)
    \/ \E label \in RegistrySynapseLabels, synapse \in RegistrySynapses :
          AddSynapseType(label, synapse)
    \/ \E label \in RegistryLabels, key \in RegistryIonNames, ion \in RegistryIons :
          AddIon(label, key, ion)
    \/ \E label \in RegistryLabels, mech_id \in RegistryMechIds, mech \in RegistryMechanisms :
          AddMech(label, mech_id, mech)
    \/ \E label \in RegistryLabels, key \in RegistrySynapseLabels,
          synapse \in RegistrySynapses : AddSynapse(label, key, synapse)

SpecRegistry == InitBuild /\ [][NextRegistry]_vars

\* C19: a call of add_cable_type, add_synapse_type, add_ion, add_mech or
\* add_synapse with a key its registry already holds fails with an error and
\* leaves the whole definition as it was: every entry keeps its value and
\* its position.
C19_DuplicateAddFails ==
    [][(call'.op \in AddOps /\ DictHas(RegistryOf(definition, call'), call'.key))
          => (err' # NoError /\ definition' = definition)]_vars

\* A second ion named like the first of two was refused.
C19_Witness ==
    /\ call.op = "add_ion" /\ err = "KeyError"
    /\ DictHas(definition.cable_types, call.label)
    /\ Len(DictGet(definition.cable_types, call.label).ions) = 2
    /\ DictGet(definition.cable_types, call.label).ions[1].k = call.key

(***************************************************************************)
(* Compound cable type names (Schematic.get_compound_cable_types) and the  *)
(* way builders/_bluepyopt.py reads the labels back from them.  A name is  *)
(* a sequence of characters; Spelling gives the characters of a label.     *)
(***************************************************************************)
Spelling(label) ==
    CASE label = "_b" -> <<"_", "b">>
      [] label = "a" -> <<"a">>
      [] label = "a_" -> <<"a", "_">>
      [] label = "a_b" -> <<"a", "_", "b">>
      [] label = "apical_dendrite" ->
            <<"a", "p", "i", "c", "a", "l", "_", "d", "e", "n", "d", "r", "i", "t", "e">>
      [] label = "b" -> <<"b">>
      [] label = "basal_dendrite" ->
            <<"b", "a", "s", "a", "l", "_", "d", "e", "n", "d", "r", "i", "t", "e">>
      [] label = "c" -> <<"c">>
      [] label = "soma" -> <<"s", "o", "m", "a">>
      [] label = "u" -> <<"u">>
      [] label = "x" -> <<"x">>
      [] label = "y" -> <<"y">>

\* l.replace("_", "__")
RECURSIVE DoubleUnderscores(_)
DoubleUnderscores(str) ==
    IF str = <<>> THEN <<>>
    ELSE (IF Head(str) = "_" THEN <<"_", "_">> ELSE <<Head(str)>>)
            \o DoubleUnderscores(Tail(str))

\* "_".join(parts)
RECURSIVE Join(_)
Join(parts) ==
    IF parts = <<>> THEN <<>>
    ELSE IF Len(parts) = 1 THEN parts[1]
    ELSE parts[1] \o <<"_">> \o Join(Tail(parts))

\* The function _make_label_namer returns.
name_labels(def, labels) ==
    Once(sort_labels(def, labels),
         LAMBDA sorted :
            Join([i \in 1..Len(sorted) |-> DoubleUnderscores(Spelling(sorted[i]))]))

\* re.split("(?<!_)_(?!_)", label): the pieces between the underscores that
\* have no underscore right before or right after them.
IsSeparator(str, i) ==
    /\ str[i] = "_"
    /\ i > 1 => str[i - 1] # "_"
    /\ i < Len(str) => str[i + 1] # "_"
RECURSIVE SplitFrom(_, _, _)
SplitFrom(str, i, piece) ==
    IF i > Len(str) THEN <<piece>>
    ELSE IF IsSeparator(str, i) THEN <<piece>> \o SplitFrom(str, i + 1, <<>>)
    ELSE SplitFrom(str, i + 1, Append(piece, str[i]))
Split(str) == SplitFrom(str, 1, <<>>)

\* l.replace("__", "_"): the pairs are taken from the left, without overlap.
RECURSIVE HalveUnderscores(_)
HalveUnderscores(str) ==
    IF Len(str) < 2 THEN str
    ELSE IF str[1] = "_" /\ str[2] = "_"
    THEN <<"_">> \o HalveUnderscores(SubSeq(str, 3, Len(str)))
    ELSE <<str[1]>> \o HalveUnderscores(Tail(str))

\* ArborizeMorphology.instantiate: the labels read back from a compound name.
DecodeLabels(label) ==
    Once(Split(label),
         LAMBDA pieces : [i \in 1..Len(pieces) |-> HalveUnderscores(pieces[i])])

\* {name_labels(branch.labels): branch.definition for branch in self}
RECURSIVE CompoundOf(_, _, _, _)
CompoundOf(def, us, branches, compound) ==
    IF branches = <<>> THEN compound
    ELSE Once(DictSet(compound, name_labels(def, us[Head(branches)].labels),
                      us[Head(branches)].definition[1]),
              LAMBDA set : CompoundOf(def, us, Tail(branches), set))

\* Schematic.get_compound_cable_types()
GetCompoundCableTypes ==
    /\ call' = [op |-> "get_compound_cable_types"]
    /\ IF ~frozen
       THEN Raise("RuntimeError")
       ELSE Return(CompoundOf(definition, units, Iter(units, roots), EmptyDict))
    /\ UNCHANGED <<frozen, name, named, definition, cables, units, roots>>

(***************************************************************************)
(* SpecNames: schematics built in ascending order with labels that hold    *)
(* underscores, frozen and asked for their compound cable types.           *)
(***************************************************************************)
NameLabelLists ==
    { <<>>, <<"a">>, <<"a_b">>, <<"a", "b">>, <<"a_", "b">>, <<"a", "_b">>,
      <<"basal_dendrite", "soma">> }
\* Every label registered, in code point order or with "a" and "b" first,
\* or "soma" and "b" alone.
NameDefinitions ==
    { Def([i \in 1..Len(order) |-> [k |-> order[i], v |-> NewCableType]], EmptyDict, TRUE) :
        order \in { <<"_b", "a", "a_", "a_b", "b", "basal_dendrite", "soma">>,
                    <<"a", "b", "a_", "_b", "a_b", "soma", "basal_dendrite">>,
                    <<"soma", "b">> } }

NextNames ==
    \/ \E location \in NextLocations(cables),
          coords \in CoordsPool, radius \in RadiusPool, labels \in NameLabelLists :
            /\ CreateLocation(location, coords, radius, labels, NoEndpoint)
            /\ Within(MaxCables, MaxPoints)
    \/ \E value \in NameDefinitions : SetDefinition(value)
    \/ Freeze
    \/ GetCompoundCableTypes

SpecNames == InitBuild /\ [][NextNames]_vars

\* The characters of each label of a list, as a set.
SpelledSet(labels) == { Spelling(labels[i]) : i \in 1..Len(labels) }
SeqSet(seq) == { seq[i] : i \in 1..Len(seq) }

\* C20: when get_compound_cable_types returns, the name of every unit
\* branch is a key of the result and decodes (split on the underscores that
\* have no underscore beside them, then undoubled) to exactly the branch's
\* labels, and two unit branches have the same name only if they have the
\* same label set.
C20_CompoundNamesDecodable ==
    (call.op = "get_compound_cable_types" /\ err = NoError) =>
        /\ \A u \in 1..Len(units) :
              /\ DictHas(ret, name_labels(definition, units[u].labels))
              /\ SeqSet(DecodeLabels(name_labels(definition, units[u].labels)))
                    = SpelledSet(units[u].labels)
        /\ \A u1, u2 \in 1..Len(units) :
              name_labels(definition, units[u1].labels)
                    = name_labels(definition, units[u2].labels)
                 => SameSet(units[u1].labels, units[u2].labels)

(***************************************************************************)
(* SpecIter: schematics built in ascending order, every new cable either a *)
(* root or attached to a point created before, and iterated.               *)
(***************************************************************************)
\* [*iter(self)]: the unit branches Schematic.__iter__ yields, in order.
Iterate ==
    /\ call' = [op |-> "__iter__"]
    /\ Return(Iter(units, roots))
    /\ UNCHANGED <<frozen, name, named, definition, cables, units, roots>>

IterLabelLists == { <<"x">>, <<"y">> }

NextIter ==
    \/ \E location \in NextLocations(cables),
          coords \in CoordsPool, radius \in RadiusPool, labels \in IterLabelLists,
          endpoint \in {NoEndpoint} \cup CreatedPoints(cables) :
            /\ endpoint # NoEndpoint => location = <<Len(cables), 0>>
            /\ CreateLocation(location, coords, radius, labels, endpoint)
            /\ Within(MaxCables, MaxPoints)
    \/ Iterate

SpecIter == InitBuild /\ [][NextIter]_vars

\* Depth-first pre-order in construction order: the branches in list order,
\* each followed by its children's subtrees in the order they were attached.
RECURSIVE PreOrder(_, _)
PreOrder(us, branches) ==
    IF branches = <<>> THEN <<>>
    ELSE <<Head(branches)>> \o PreOrder(us, us[Head(branches)].children)
                            \o PreOrder(us, Tail(branches))

\* C21: iterating the schematic yields the unit branches in depth-first
\* pre-order matching construction order: the roots in the order they were
\* created, each unit branch before its descendants, the children of a unit
\* branch in the order they were attached.
C21_IterationInConstructionOrder ==
    call.op = "__iter__" => ret = PreOrder(units, roots)

(***************************************************************************)
(* SpecCopy: what the schematic hands out and what the caller then does to *)
(* it.  s.definition is the Definition object the schematic holds; s.ret   *)
(* is what the last getter returned: the cable types and synapse types     *)
(* reachable from it, and `shared`, the labels of the synapse types whose  *)
(* Synapse object is the very object the schematic's Definition holds.     *)
(***************************************************************************)
\* d = s.definition
GetDefinition ==
    /\ call' = [op |-> "definition.get"]
    /\ Return(DefinitionCopy(definition))
    /\ UNCHANGED <<frozen, name, named, definition, cables, units, roots>>

\* d = s.get_cable_types()
SchematicGetCableTypes ==
    /\ call' = [op |-> "get_cable_types"]
    /\ Return([cable_types |-> get_cable_types(definition), synapse_types |-> EmptyDict,
               shared |-> {}])
    /\ UNCHANGED <<frozen, name, named, definition, cables, units, roots>>

\* d = s.get_synapse_types()
SchematicGetSynapseTypes ==
    /\ call' = [op |-> "get_synapse_types"]
    /\ Return([cable_types |-> EmptyDict, synapse_types |-> get_synapse_types(definition),
               shared |-> {}])
    /\ UNCHANGED <<frozen, name, named, definition, cables, units, roots>>

\* Something was returned and is held by the caller.
Holding == ret # <<>>

\* The caller registers a cable type more in what was returned.
MutateAddCableType(label, def_) ==
    /\ Holding /\ ~DictHas(ret.cable_types, label)
    /\ call' = [op |-> "mutate"]
    /\ ret' = [ret EXCEPT !.cable_types = DictSet(@, label, def_)]
    /\ UNCHANGED <<frozen, name, named, definition, cables, units, roots, err>>

\* The caller sets a field of a returned cable type's cable properties.
MutateCable(label, field, value) ==
    /\ Holding /\ DictHas(ret.cable_types, label)
    /\ call' = [op |-> "mutate"]
    /\ ret' = [ret EXCEPT !.cable_types =
                  DictSet(@, label, [DictGet(@, label) EXCEPT !.cable[field] = value])]
    /\ UNCHANGED <<frozen, name, named, definition, cables, units, roots, err>>

\* The caller sets a field of an ion of a returned cable type.
MutateIon(label, key, field, value) ==
    /\ Holding /\ DictHas(ret.cable_types, label)
    /\ DictHas(DictGet(ret.cable_types, label).ions, key)
    /\ call' = [op |-> "mutate"]
    /\ ret' = [ret EXCEPT !.cable_types =
                  DictSet(@, label,
                          [DictGet(@, label) EXCEPT !.ions =
                              DictSet(@, key, [DictGet(@, key) EXCEPT ![field] = value])])]
    /\ UNCHANGED <<frozen, name, named, definition, cables, units, roots, err>>

\* The caller sets a parameter of a mechanism of a returned cable type.
MutateMechanism(label, mech_id, key, value) ==
    /\ Holding /\ DictHas(ret.cable_types, label)
    /\ DictHas(DictGet(ret.cable_types, label).mechs, mech_id)
    /\ call' = [op |-> "mutate"]
    /\ ret' = [ret EXCEPT !.cable_types =
                  DictSet(@, label,
                          [DictGet(@, label) EXCEPT !.mechs =
                              DictSet(@, mech_id,
                                      [DictGet(@, mech_id) EXCEPT !.parameters =
                                          DictSet(@, key, value)])])]
    /\ UNCHANGED <<frozen, name, named, definition, cables, units, roots, err>>

\* synapse.parameters[key] = value on the Synapse registered under `label`.
WithSynapseParameter(synapse_types, label, key, value) ==
    DictSet(synapse_types, label,
            [DictGet(synapse_types, label) EXCEPT !.parameters = DictSet(@, key, value)])

\* The caller sets a parameter of a returned synapse type: the write lands
\* in the Synapse object, which the schematic's Definition holds too when
\* the object is shared.
MutateSynapse(label, key, value) ==
    /\ Holding /\ DictHas(ret.synapse_types, label)
    /\ call' = [op |-> "mutate"]
    /\ ret' = [ret EXCEPT !.synapse_types = WithSynapseParameter(@, label, key, value)]
    /\ definition' =
          IF label \in ret.shared
          THEN [definition EXCEPT !.synapse_types =
                   WithSynapseParameter(@, label, key, value)]
          ELSE definition
    /\ UNCHANGED <<frozen, name, named, cables, units, roots, err>>

CopyDefinitions ==
    { Def(Dict1("x", CtFull), ExpSyn2, FALSE),
      Def(Dict2("x", CtPartial, "y", CtFull), EmptyDict, TRUE) }
MutatedValues == {"9"}

NextCopy ==
    \/ \E value \in CopyDefinitions : SetDefinition(value)
    \/ GetDefinition
    \/ SchematicGetCableTypes
    \/ SchematicGetSynapseTypes
    \/ \E label \in {"y", "u"}, def_ \in {NewCableType} : MutateAddCableType(label, def_)
    \/ \E label \in {"x"}, field \in {"Ra"}, value \in MutatedValues :
          MutateCable(label, field, value)
    \/ \E label \in {"x"}, key \in {"ca"}, field \in {"rev_pot"}, value \in MutatedValues :
          MutateIon(label, key, field, value)
    \/ \E label \in {"x"}, mech_id \in {"pas"}, key \in {"g"}, value \in MutatedValues :
          MutateMechanism(label, mech_id, key, value)
    \/ \E label \in {"expsyn2"}, key \in {"tau"}, value \in MutatedValues :
          MutateSynapse(label, key, value)

SpecCopy == InitBuild /\ [][NextCopy]_vars

\* C22: whatever the caller changes in an object returned by
\* Schematic.definition, get_cable_types() or get_synapse_types(), the
\* Definition the schematic holds keeps its value, so that later calls
\* return, and freeze resolves, what they would have before the change.
C22_ReturnedObjectsAreCopies ==
    [][call'.op = "mutate" => definition' = definition]_vars

\* C23: define_model(template, definition_dict) returns a Definition that
\* has the template's cable types with the dict's merged on top (the dict's
\* labels that the template lacks are added, use_defaults is the keyword
\* argument's), and the template keeps its value.
C23_DefineModelFromTemplate ==
    call.op = "define_model_template" =>
        LET parsed == _parse_dict_def(call.def_dict)
        IN  parsed.err = NoError =>
                /\ err = NoError
                /\ ret.model.use_defaults = call.use_defaults
                /\ \A i \in 1..Len(call.template.cable_types) :
                      DictHas(ret.model.cable_types, call.template.cable_types[i].k)
                /\ \A i \in 1..Len(parsed.val.cable_types) :
                      LET label == parsed.val.cable_types[i].k
                      IN  /\ DictHas(ret.model.cable_types, label)
                          /\ DictGet(ret.model.cable_types, label) =
                                IF DictHas(call.template.cable_types, label)
                                THEN CableTypeMerge(
                                        CableTypeCopy(DictGet(call.template.cable_types,
                                                              label)),
                                        parsed.val.cable_types[i].v).val
                                ELSE parsed.val.cable_types[i].v

(***************************************************************************)
(* SpecConstraint: one Constraint, its bounds read again and again.        *)
(* s.ret is [c, l, u, val, reads]: the Constraint object, the raw bounds   *)
(* it was built from, the value the last read returned and the number of   *)
(* reads so far.                                                           *)
(***************************************************************************)
MaxReads == 3

\* Constraint.from_value for a list or tuple (lower, upper).
from_pair(value) == [NewConstraint EXCEPT !.lower = <<value[1]>>, !.upper = <<value[2]>>]

\* The `lower` and `upper` properties as calls on an object: [err, val, self],
\* self being the Constraint after the read.  The getters scale a local
\* variable and assign nothing to the object.
LowerCompounding(c) ==
    IF c.tolerance = <<>> THEN [err |-> NoError, val |-> c.lower, self |-> c]
    ELSE [err |-> NoError, val |-> <<c.lower[1] * (100 - c.tolerance[1])>>,
          self |-> [c EXCEPT !.lower = <<(c.lower[1] * (100 - c.tolerance[1])) \div 100>>]]
Lower(c) ==
    IF c.tolerance = <<>> THEN [err |-> NoError, val |-> c.lower, self |-> c]
    ELSE IF c.lower = <<>> THEN [err |-> TypeError, val |-> <<>>, self |-> c]
    ELSE [err |-> NoError, val |-> <<c.lower[1] * (100 - c.tolerance[1])>>, self |-> c]
Upper(c) == [err |-> ConstraintUpper(c).err, val |-> ConstraintUpper(c).val, self |-> c]

ConstraintValues == { <<10, 10>>, <<20, 20>>, <<5, 10>> }
ConstraintTolerances == { <<>>, <<10>>, <<50>> }

\* c = Constraint.from_value(value).set_tolerance(tolerance); a scalar v is
\* the pair <<v, v>>.
FromValue(value, tolerance) ==
    /\ Fresh
    /\ call' = [op |-> "from_value"]
    /\ Return([c |-> set_tolerance(IF value[1] = value[2] THEN from_value(<<value[1]>>)
                                   ELSE from_pair(value), tolerance),
               l |-> value[1], u |-> value[2], val |-> <<>>, reads |-> 0])
    /\ UNCHANGED <<frozen, name, named, definition, cables, units, roots>>

\* c.set_tolerance(tolerance)
SetTolerance(tolerance) ==
    /\ ~Fresh
    /\ call' = [op |-> "set_tolerance"]
    /\ ret' = [ret EXCEPT !.c = set_tolerance(@, tolerance)]
    /\ UNCHANGED <<frozen, name, named, definition, cables, units, roots, err>>

\* c.lower
ReadLower ==
    /\ ~Fresh /\ ret.reads < MaxReads
    /\ call' = [op |-> "lower"]
    /\ ret' = [ret EXCEPT !.c = Lower(ret.c).self, !.val = Lower(ret.c).val,
                          !.reads = @ + 1]
    /\ err' = Lower(ret.c).err
    /\ UNCHANGED <<frozen, name, named, definition, cables, units, roots>>

\* c.upper
ReadUpper ==
    /\ ~Fresh /\ ret.reads < MaxReads
    /\ call' = [op |-> "upper"]
    /\ ret' = [ret EXCEPT !.c = Upper(ret.c).self, !.val = Upper(ret.c).val,
                          !.reads = @ + 1]
    /\ err' = Upper(ret.c).err
    /\ UNCHANGED <<frozen, name, named, definition, cables, units, roots>>

NextConstraint ==
    \/ \E value \in ConstraintValues, tolerance \in ConstraintTolerances :
          FromValue(value, tolerance)
    \/ \E tolerance \in ConstraintTolerances : SetTolerance(tolerance)
    \/ ReadLower
    \/ ReadUpper

SpecConstraint == InitBuild /\ [][NextConstraint]_vars

\* C24: for a Constraint with raw bounds (l, u) and tolerance t, every read
\* of lower returns l * (1 - t) and every read of upper returns u * (1 - t),
\* however many reads came before (values in hundredths, t in percent).
C24_ToleranceDoesNotCompound ==
    (call.op \in {"lower", "upper"} /\ ret.c.tolerance # <<>>) =>
        /\ err = NoError
        /\ ret.val = <<(IF call.op = "lower" THEN ret.l ELSE ret.u)
                          * (100 - ret.c.tolerance[1])>>

\* The Constraint built from the scalar 10 with tolerance 0.1 reported
\* lower 9.0 on its third read.
C24_Witness ==
    /\ call.op = "lower" /\ ret.reads = 3
    /\ ret.l = 10 /\ ret.u = 10 /\ ret.c.tolerance = <<10>>
    /\ ret.val = <<900>>

\* C25: in a frozen schematic no cable branch has exactly one point: the
\* cables are placeholders without points or hold two points or more.
C25_FrozenCablesHaveNoSinglePoint ==
    frozen => \A c \in 1..Len(cables) : Len(cables[c].points) # 1

\* l1 comes before l2 in the order: registered labels in registration
\* order, then the labels the definition does not hold, alphabetically.
RegisteredFirst(def, l1, l2) ==
    IF DictHas(def.cable_types, l1) /\ DictHas(def.cable_types, l2)
    THEN label_order(def, l1)[1] < label_order(def, l2)[1]
    ELSE IF DictHas(def.cable_types, l1) # DictHas(def.cable_types, l2)
    THEN DictHas(def.cable_types, l1)
    ELSE StrLess(l1, l2)
\* The labels of a list of distinct labels, in that order.
InRegisteredFirstOrder(def, labels) ==
    CHOOSE sorted \in [1..Len(labels) -> SeqSet(labels)] :
        /\ SeqSet(sorted) = SeqSet(labels)
        /\ \A i, j \in 1..Len(labels) :
              i < j => RegisteredFirst(def, sorted[i], sorted[j])

\* C26: the priority order that names the compound cable types is the
\* registered labels in registration order followed by the labels the
\* Definition does not hold, alphabetically: the name of every unit branch
\* in the result of get_compound_cable_types joins its labels in that order.
C26_UnregisteredLabelsLast ==
    (call.op = "get_compound_cable_types" /\ err = NoError) =>
        \A u \in 1..Len(units) :
            DictHas(ret, Once(InRegisteredFirstOrder(definition, units[u].labels),
                              LAMBDA sorted :
                                 Join([i \in 1..Len(sorted) |->
                                          DoubleUnderscores(Spelling(sorted[i]))])))

(***************************************************************************)
(* SpecSynapse: one cable frozen under definitions whose labels declare    *)
(* synapses under the keys of the model-wide synapse types.                *)
(***************************************************************************)
CtSynapse(mech_id, parameters) ==
    [NewCableType EXCEPT !.synapses = Dict1("syn", Synapse(parameters, mech_id))]
ModelWideSynapses ==
    Dict2("syn", Synapse(Dict2("tau", "global", "gmax", "global"), "ExpSyn"),
          "other", Synapse(Dict1("tau", "global"), "GABA"))
SynapseDefinitions ==
    { Def(Dict2("a", CtSynapse("AMPA", Dict1("tau", "a")), "b", NewCableType),
          ModelWideSynapses, TRUE),
      Def(Dict2("b", CtSynapse("ExpSyn", Dict1("gmax", "b")),
                "a", CtSynapse("ExpSyn", Dict2("tau", "a", "e", "a"))),
          ModelWideSynapses, TRUE) }
SynapseLabelLists == { <<>>, <<"a">>, <<"b">>, <<"a", "b">> }

NextSynapse ==
    \/ \E location \in NextLocations(cables),
          coords \in CoordsPool, radius \in RadiusPool, labels \in SynapseLabelLists :
            /\ CreateLocation(location, coords, radius, labels, NoEndpoint)
            /\ Within(1, MaxPoints)
    \/ \E value \in SynapseDefinitions : SetDefinition(value)
    \/ Freeze

SpecSynapse == InitBuild /\ [][NextSynapse]_vars

\* The labels of a unit branch that declare a synapse under `key`, in
\* priority order.
Declaring(def, labels, key) ==
    SelectSeq(sort_labels(def, labels),
              LAMBDA l : /\ DictHas(def.cable_types, l)
                         /\ DictHas(DictGet(def.cable_types, l).synapses, key))

\* C27: after freeze every unit branch's resolved definition holds every
\* model-wide synapse type, and where a label of the branch declares a
\* synapse under the key of a model-wide one, the resolved synapse has the
\* mechanism id and every parameter of the label's declaration (of the last
\* declaring label in priority order); the Definition's model-wide synapses
\* are as they were assigned.
C27_LabelSynapseOverridesModelWide ==
    frozen =>
        /\ definition \in SynapseDefinitions \cup {NewDefinition}
        /\ \A u \in 1..Len(units) : units[u].definition # <<>> =>
              \A i \in 1..Len(definition.synapse_types) :
                 LET key == definition.synapse_types[i].k
                     resolved == units[u].definition[1].synapses
                     declaring == Declaring(definition, units[u].labels, key)
                 IN  /\ DictHas(resolved, key)
                     /\ declaring # <<>> =>
                           LET declared ==
                                 DictGet(DictGet(definition.cable_types,
                                                 declaring[Len(declaring)]).synapses, key)
                           IN  /\ DictGet(resolved, key).mech_id = declared.mech_id
                               /\ \A j \in 1..Len(declared.parameters) :
                                     /\ DictHas(DictGet(resolved, key).parameters,
                                                declared.parameters[j].k)
                                     /\ DictGet(DictGet(resolved, key).parameters,
                                                declared.parameters[j].k)
                                           = declared.parameters[j].v

\* C28: a create_location call that raises leaves the cables and their
\* points, the unit branches and their links, and the roots as they were.
C28_RaisingCreateLocationChangesNothing ==
    [][(call'.op = "create_location" /\ err' # NoError)
          => (cables' = cables /\ units' = units /\ roots' = roots)]_vars

(***************************************************************************)
(* The shape of the unit-branch graph.                                     *)
(***************************************************************************)
\* The places unit branch u has: its positions in roots (<<0, i>>) and in
\* the children of unit branch v (<<v, i>>).
Places(us, rs, u) ==
    { p \in (({0} \X DOMAIN rs)
             \cup UNION { {v} \X DOMAIN us[v].children : v \in DOMAIN us }) :
        (IF p[1] = 0 THEN rs[p[2]] ELSE us[p[1]].children[p[2]]) = u }

\* A forest rooted at rs: every unit branch has exactly one place, and the
\* children links run along some strict order (so they close no cycle).
Forest(us, rs) ==
    /\ \A u \in DOMAIN us : Cardinality(Places(us, rs, u)) = 1
    /\ \E rank \in [DOMAIN us -> DOMAIN us] :
          \A v \in DOMAIN us : \A i \in DOMAIN us[v].children :
              rank[us[v].children[i]] > rank[v]

\* Every unit branch resolves under def without a missing value.
Complete(def, us) ==
    \A u \in DOMAIN us :
        LET made == _makedef(def, us[u].labels)
        IN  made.err = NoError /\ ~CableTypeAssert(made.val).raised

ValidationErrors == { "ValueError", "ModelDefinitionError" }

\* What holds of every call on an unfrozen schematic, a schematic whose
\* freeze() has failed included: a freeze() that fails validation leaves it
\* unfrozen, the mutators are not refused, create_name raises FrozenError.
StillUnfrozen ==
    /\ (call'.op = "freeze" /\ err' \in ValidationErrors) => ~frozen'
    /\ call'.op = "create_location" => err' # "FrozenError"
    /\ call'.op = "create_empty" => err' = NoError /\ Len(cables') = Len(cables) + 1
    /\ call'.op = "definition" => err' = NoError
    /\ call'.op = "create_name" => err' = "FrozenError"

\* freeze() has succeeded and every unit branch holds the definition
\* resolved from the current Definition.
FreezeResolvesAll ==
    /\ err' = NoError
    /\ frozen'
    /\ \A u \in DOMAIN units :
          units'[u] = [units[u] EXCEPT
                         !.definition = <<_makedef(definition, units[u].labels).val>>]

\* An earlier freeze() has failed: the schematic is unfrozen and holds unit
\* branches that freeze() had resolved before it raised.
FreezeFailed == ~frozen /\ \E u \in DOMAIN units : units[u].definition # <<>>

C30_AcceptedCallsKeepForest ==
    [][(/\ Forest(units, roots)
        /\ call'.op \in {"create_location", "create_empty"}
        /\ err' = NoError) => Forest(units', roots')]_vars

====
